---- MODULE Spec2Model ----
(***************************************************************************)
(* Verification model of the UDP LiDAR receivers of this repository:       *)
(* the fixed-count reassemblers (cnet.cpp, parse.cpp, checksum.cpp,        *)
(* parse_checksum.cpp, fumadon.cpp), the start/end marker detector         *)
(* (start_end.cpp) and the checksum verifiers.                             *)
(* Each program is one receive loop; one action models one iteration of    *)
(* the loop for one received datagram.  The variable prog names the        *)
(* program that is running; it is chosen in the initial state and never    *)
(* changes.                                                                *)
(***************************************************************************)
EXTENDS Integers, Sequences, FiniteSets, TLC

\* ------------------------------------------------------------------ bounds
\* longest datagram enumerated byte by byte
MaxFragLen == 2
\* the receive loops are stopped after this many saved measurements
MaxFrames == 2
\* the receive loops are stopped after this many dropped packets
MaxDropped == 2

\* ------------------------------------------------------- C integer helpers
\* a ^ b on non-negative integers
RECURSIVE BitXor(_, _)
BitXor(a, b) ==
    IF a = 0 THEN b
    ELSE IF b = 0 THEN a
    ELSE (((a % 2) + (b % 2)) % 2) + 2 * BitXor(a \div 2, b \div 2)

\* a & b on non-negative integers
RECURSIVE BitAnd(_, _)
BitAnd(a, b) ==
    IF a = 0 \/ b = 0 THEN 0
    ELSE ((a % 2) * (b % 2)) + 2 * BitAnd(a \div 2, b \div 2)

\* concatenation of a sequence of byte sequences
RECURSIVE Flatten(_)
Flatten(ss) == IF ss = <<>> THEN <<>> ELSE Head(ss) \o Flatten(Tail(ss))

\* s[from+1 .. Len(s)]: the bytes of a C buffer from index `from` on
DropBytes(s, from) == SubSeq(s, from + 1, Len(s))

\* all byte sequences of length lo..hi over the byte set B
SeqsOver(B, lo, hi) == UNION {[1..n -> B] : n \in lo..hi}

\* ------------------------------------------------------ program constants
PACKETS_TO_STACK == 3
FRAGMENTS_PER_MEASUREMENT == 3
HEADER_SIZE == 20
UDP_HEADER_SIZE == 24
CHECKSUM_SIZE_CRC32 == 4
CHECKSUM_SIZE_XOR == 1
CHECKSUM_SIZE_SUM == 1
HEADER_AND_PREAMBLE_SIZE == 80

\* ------------------------------------------------ checksum.cpp: CRC-16
\* one round of the inner loop of crc16_ccitt on an unsigned short
Crc16Round(crc) ==
    IF BitAnd(crc, 32768) # 0
    THEN BitXor(crc * 2, 4129) % 65536
    ELSE (crc * 2) % 65536

RECURSIVE Crc16Rounds(_, _)
Crc16Rounds(crc, j) == IF j = 0 THEN crc ELSE Crc16Rounds(Crc16Round(crc), j - 1)

\* the outer loop of crc16_ccitt; st holds crc and the bytes still to read
RECURSIVE Crc16Loop(_)
Crc16Loop(st) ==
    IF st.rest = <<>> THEN st.crc
    ELSE Crc16Loop([crc |-> Crc16Rounds(BitXor(st.crc, Head(st.rest) * 256), 8),
                    rest |-> Tail(st.rest)])

\* crc16_ccitt(data, length) with data = the first `length` bytes
crc16_ccitt(bytes) == Crc16Loop([crc |-> 0, rest |-> bytes])

\* header->u16CRC16: the packed struct overlay reads the 16-bit field at
\* offset 18 in host byte order (little-endian on the build's x86 target)
HeaderCrc16(measurement) == measurement[19] + 256 * measurement[20]

check_checksum(measurement) ==
    IF Len(measurement) < HEADER_SIZE THEN FALSE
    ELSE crc16_ccitt(SubSeq(measurement, 1, Len(measurement) - 2))
             = HeaderCrc16(measurement)

\* ------------------------------------------- parse_checksum.cpp: CRC-32
\* a uint32_t is kept as its two 16-bit halves
U32(lo, hi) == [lo |-> lo, hi |-> hi]
U32Xor(x, y) == U32(BitXor(x.lo, y.lo), BitXor(x.hi, y.hi))
U32Shr1(x) == U32((x.lo \div 2) + (x.hi % 2) * 32768, x.hi \div 2)
U32Shr8(x) == U32((x.lo \div 256) + (x.hi % 256) * 256, x.hi \div 256)

\* one round of the inner loop of initialize_crc32_table (0xEDB88320)
Crc32TableRound_NoPolynomial(c) == U32Shr1(c)

Crc32TableRound(c) ==
    IF c.lo % 2 = 1 THEN U32Xor(U32(33568, 60856), U32Shr1(c)) ELSE U32Shr1(c)

RECURSIVE Crc32TableRounds(_, _)
Crc32TableRounds(c, j) ==
    IF j = 0 THEN c ELSE Crc32TableRounds(Crc32TableRound(c), j - 1)

\* the table initialize_crc32_table() leaves in crc32_table
initialize_crc32_table == [i \in 0..255 |-> Crc32TableRounds(U32(i, 0), 8)]

\* the loop of calculate_crc32 over the table tbl; st holds crc and the
\* bytes still to read
RECURSIVE Crc32Loop(_, _)
Crc32Loop(tbl, st) ==
    IF st.rest = <<>> THEN st.crc
    ELSE Crc32Loop(tbl,
             [crc |-> U32Xor(tbl[BitAnd(BitXor(st.crc.lo, Head(st.rest)), 255)],
                             U32Shr8(st.crc)),
              rest |-> Tail(st.rest)])

calculate_crc32(tbl, bytes) ==
    U32Xor(Crc32Loop(tbl, [crc |-> U32(65535, 65535), rest |-> bytes]),
           U32(65535, 65535))

\* memcpy of the 4 trailer bytes + le_to_h_u32
le_to_h_u32_Swapped(b) == U32(b[4] + 256 * b[3], b[2] + 256 * b[1])

le_to_h_u32(b) == U32(b[1] + 256 * b[2], b[3] + 256 * b[4])

verify_checksum_crc32_BigEndian(tbl, packet) ==
    IF Len(packet) < CHECKSUM_SIZE_CRC32 THEN FALSE
    ELSE LET data_length == Len(packet) - CHECKSUM_SIZE_CRC32
             b == DropBytes(packet, data_length)
         IN  calculate_crc32(tbl, SubSeq(packet, 1, data_length))
                 = U32(b[4] + 256 * b[3], b[2] + 256 * b[1])

verify_checksum_crc32(tbl, packet) ==
    IF Len(packet) < CHECKSUM_SIZE_CRC32 THEN FALSE
    ELSE LET data_length == Len(packet) - CHECKSUM_SIZE_CRC32
         IN  calculate_crc32(tbl, SubSeq(packet, 1, data_length))
                 = le_to_h_u32(DropBytes(packet, data_length))

\* ------------------------------------------ parse_checksum3.cpp: XOR-8
\* the loop of calculate_xor_checksum; st holds checksum and the bytes
\* still to read
RECURSIVE XorLoop(_)
XorLoop(st) ==
    IF st.rest = <<>> THEN st.checksum
    ELSE XorLoop([checksum |-> BitXor(st.checksum, Head(st.rest)),
                  rest |-> Tail(st.rest)])

calculate_xor_checksum(data) == XorLoop([checksum |-> 0, rest |-> data])

verify_checksum_xor8_LowBits(packet) ==
    IF Len(packet) < CHECKSUM_SIZE_XOR THEN FALSE
    ELSE LET data_length == Len(packet) - CHECKSUM_SIZE_XOR
         IN  calculate_xor_checksum(SubSeq(packet, 1, data_length)) % 128
                 = packet[data_length + 1] % 128

verify_checksum_xor8(packet) ==
    IF Len(packet) < CHECKSUM_SIZE_XOR THEN FALSE
    ELSE LET data_length == Len(packet) - CHECKSUM_SIZE_XOR
         IN  calculate_xor_checksum(SubSeq(packet, 1, data_length))
                 = packet[data_length + 1]

\* ------------------------------------------------ 8bit_check.cpp: sum-8
RECURSIVE calculate_sum_checksum(_)
calculate_sum_checksum(data) ==
    IF data = <<>> THEN 0
    ELSE (Head(data) + calculate_sum_checksum(Tail(data))) % 256

verify_checksum_sum8_FromStart(packet) ==
    IF Len(packet) <= HEADER_AND_PREAMBLE_SIZE + CHECKSUM_SIZE_SUM THEN FALSE
    ELSE calculate_sum_checksum(
             SubSeq(packet, 1, Len(packet) - CHECKSUM_SIZE_SUM))
         = packet[Len(packet)]

verify_checksum_sum8(packet) ==
    IF Len(packet) <= HEADER_AND_PREAMBLE_SIZE + CHECKSUM_SIZE_SUM THEN FALSE
    ELSE calculate_sum_checksum(
             SubSeq(packet, HEADER_AND_PREAMBLE_SIZE + 1,
                    Len(packet) - CHECKSUM_SIZE_SUM))
         = packet[Len(packet)]

\* ------------------------------------- fumadon.cpp: 16-bit one's complement
RECURSIVE UdpWordSum_BigEndian(_)
UdpWordSum_BigEndian(buffer) ==
    IF Len(buffer) > 1
    THEN 256 * buffer[1] + buffer[2] + UdpWordSum_BigEndian(DropBytes(buffer, 2))
    ELSE IF Len(buffer) > 0 THEN buffer[1] ELSE 0

\* the 16-bit words are read through an unsigned short pointer (host order)
RECURSIVE UdpWordSum(_)
UdpWordSum(buffer) ==
    IF Len(buffer) > 1
    THEN buffer[1] + 256 * buffer[2] + UdpWordSum(DropBytes(buffer, 2))
    ELSE IF Len(buffer) > 0 THEN buffer[1] ELSE 0

RECURSIVE UdpFold(_)
UdpFold(sum) ==
    IF sum \div 65536 # 0 THEN UdpFold((sum % 65536) + (sum \div 65536)) ELSE sum

calculate_udp_checksum_NoFold(buffer) == 65535 - (UdpWordSum(buffer) % 65536)

calculate_udp_checksum(buffer) == 65535 - (UdpFold(UdpWordSum(buffer)) % 65536)

\* computes the checksum, ignores it and reports the packet as valid
verify_udp_integrity(packet) ==
    LET calculated_checksum == calculate_udp_checksum(packet)
    IN  TRUE

\* ---------------------------------------------------------------- state
VARIABLES
    prog,                  \* the program whose main loop runs
    measurementData,       \* cnet.cpp / checksum.cpp: std::vector<char>
    fragmentCounter,       \* cnet.cpp / checksum.cpp: int
    measurementIndex,      \* cnet.cpp / checksum.cpp: static int
    current_packet_stack,  \* parse.cpp / parse_checksum.cpp / fumadon.cpp
    packets_in_stack,      \* parse.cpp / parse_checksum.cpp / fumadon.cpp
    droppedCounter,        \* parse_checksum.cpp: long
    event,                 \* what the last loop iteration did
    appended,              \* fragments appended since the last clear()
    frameFrags,            \* fragments of the frame completed by the last step
    output,                \* bytes the last step wrote / handed to the parser
    measureBuffer,         \* start_end.cpp: std::vector<uint8_t>
    capturing,             \* start_end.cpp: bool
    measureCounter,        \* start_end.cpp: long
    datagram,              \* start_end.cpp: the bytes received by the last iteration
    prevBuffer,            \* measureBuffer before the last iteration
    prevCapturing,         \* capturing before the last iteration
    captured,              \* buffers reported "captured" by the last iteration
    trace,                 \* per byte of the last datagram: what the loop did
    algorithm,             \* verifier called by the last step
    packet_data,           \* the buffer it was called on
    verdict,               \* the value it returned
    origin,                \* "received", "encoded" (a payload followed by its
                           \* check value) or "corrupted" (an accepted buffer
                           \* with one byte replaced)
    crc32_table_ready,     \* parse_checksum.cpp: crc32_table has been filled
    calls,                 \* verifier calls made on packet_data so far
    earlier,               \* what the call before the last one returned
    computed,              \* the check value the last step calculated
    decoder,               \* the decoder the last step ran on packet_data
    decoded,               \* what it read, decoded and reported
    listening,             \* start_end.cpp / sick_packet_counter.cpp: the
                           \* while loop has not reached DURATION_LIMIT
    arrivals,              \* start_end.cpp: sender and bytes of every
                           \* datagram recvfrom has returned so far
    packetsInCurrentMeasure, \* sick_packet_counter.cpp: int
    packetCounter          \* sick_packet_counter.cpp: long

fixedVars == <<measurementData, fragmentCounter, measurementIndex,
               current_packet_stack, packets_in_stack, droppedCounter,
               event, appended, frameFrags, output>>

markerVars == <<measureBuffer, capturing, measureCounter, datagram,
                prevBuffer, prevCapturing, captured, trace>>

verifyVars == <<algorithm, packet_data, verdict, origin>>

tableVars == <<crc32_table_ready, calls, earlier, computed>>

\* what the fixed-count programs / the marker detector / the verifier
\* calls leave alone
decodeVars == <<decoder, decoded>>

runVars == <<listening, arrivals, packetsInCurrentMeasure, packetCounter>>

nonFixedVars == <<markerVars, verifyVars, tableVars, decodeVars, runVars>>
nonMarkerVars == <<fixedVars, verifyVars, tableVars, decodeVars, runVars>>
nonVerifyVars == <<fixedVars, markerVars, tableVars, decodeVars, runVars>>

vars == <<prog, fixedVars, markerVars, verifyVars, tableVars, decodeVars,
         runVars>>

\* ----------------------------------------------------- received datagrams
\* payload bytes used for the enumerated datagrams
FBytes == {161, 178}

\* every datagram of at most MaxFragLen bytes, the empty one included
SmallFrags == SeqsOver(FBytes, 0, MaxFragLen)

\* the 10-byte fragments of the fixed-count scenario
TenByteFrags == {[i \in 1..10 |-> b] : b \in FBytes}

\* little-endian bytes of a 16-bit / 32-bit value, as the sensor stores them
Le16Bytes(v) == <<v % 256, v \div 256>>
Le32Bytes(x) == Le16Bytes(x.lo) \o Le16Bytes(x.hi)

\* checksum.cpp: the 24-byte 'MS3 MD...' header that starts each datagram
Ms3UdpHeader == [i \in 1..UDP_HEADER_SIZE |-> 77]
\* payloads of a measurement sent in three datagrams: 10 + 8 bytes and the
\* 2 bytes of the CRC field at offset 18, right or wrong
Ms3PayloadA == <<2, 2, 1, 0, 20, 0, 0, 0, 161, 178>>
Ms3PayloadB == <<1, 2, 3, 4, 5, 6, 7, 8>>
Ms3GoodCrc == Le16Bytes(crc16_ccitt(Ms3PayloadA \o Ms3PayloadB))
Ms3BadCrc == Le16Bytes((crc16_ccitt(Ms3PayloadA \o Ms3PayloadB) + 1) % 65536)
Ms3Payloads == {Ms3PayloadA, Ms3PayloadB, Ms3GoodCrc, Ms3BadCrc}

CnetDatagrams == SmallFrags \cup TenByteFrags
\* parse.cpp / fumadon.cpp: recvfrom returned more than 0 bytes; the last
\* one is a datagram long enough to hold the preamble and the SICK header
ParseDatagrams ==
    (SmallFrags \ {<<>>}) \cup TenByteFrags \cup {[i \in 1..80 |-> 0]}
ChecksumDatagrams ==
    {Ms3UdpHeader \o q : q \in Ms3Payloads} \cup {Ms3UdpHeader, <<161>>, <<>>}
\* parse_checksum.cpp: payload followed by its CRC-32 (little-endian), or by
\* four zero bytes, or a datagram shorter than a trailer
ParseChecksumDatagrams ==
    {q \o Le32Bytes(calculate_crc32(initialize_crc32_table, q)) :
         q \in SeqsOver(FBytes, 1, MaxFragLen)}
    \cup {q \o <<0, 0, 0, 0>> : q \in SeqsOver(FBytes, 0, 1)}
    \cup {<<161>>}

\* parse_checksum3.cpp: payload followed by its XOR byte, or by a wrong one
ParseChecksum3Datagrams ==
    {q \o <<calculate_xor_checksum(q)>> : q \in SeqsOver(FBytes, 0, MaxFragLen)}
    \cup {q \o <<1>> : q \in SeqsOver(FBytes, 0, 1)}

FixedPrograms ==
    {"cnet", "parse", "checksum", "parse_checksum", "parse_checksum3", "fumadon"}

InitFixedVars ==
    /\ measurementData = <<>>
    /\ fragmentCounter = 0
    /\ measurementIndex = 0
    /\ current_packet_stack = <<>>
    /\ packets_in_stack = 0
    /\ droppedCounter = 0
    /\ event = "init"
    /\ appended = <<>>
    /\ frameFrags = <<>>
    /\ output = <<>>

cnetVars == <<measurementData, fragmentCounter, measurementIndex>>
stackVars == <<current_packet_stack, packets_in_stack, droppedCounter>>

\* ------------------------------------------------------------- cnet.cpp
\* one iteration of the receive loop with received >= 0
CnetReceive_KeepsData(frag) ==
    /\ prog = "cnet"
    /\ measurementIndex < MaxFrames
    /\ LET data == measurementData \o frag
           count == fragmentCounter + 1
       IN  IF count = FRAGMENTS_PER_MEASUREMENT
           THEN /\ output' = data
                /\ event' = "completed"
                /\ frameFrags' = Append(appended, frag)
                /\ measurementIndex' = measurementIndex + 1
                /\ fragmentCounter' = 0
                /\ measurementData' = data
                /\ appended' = <<>>
           ELSE /\ measurementData' = data
                /\ fragmentCounter' = count
                /\ appended' = Append(appended, frag)
                /\ event' = "capturing"
                /\ frameFrags' = <<>>
                /\ output' = <<>>
                /\ UNCHANGED measurementIndex
    /\ UNCHANGED <<prog, stackVars, nonFixedVars>>

CnetReceive_CompletesEarly(frag) ==
    /\ prog = "cnet"
    /\ measurementIndex < MaxFrames
    /\ LET data == measurementData \o frag
           count == fragmentCounter + 1
       IN  IF count = FRAGMENTS_PER_MEASUREMENT - 1
           THEN /\ output' = data
                /\ event' = "completed"
                /\ frameFrags' = Append(appended, frag)
                /\ measurementIndex' = measurementIndex + 1
                /\ fragmentCounter' = 0
                /\ measurementData' = <<>>
                /\ appended' = <<>>
           ELSE /\ measurementData' = data
                /\ fragmentCounter' = count
                /\ appended' = Append(appended, frag)
                /\ event' = "capturing"
                /\ frameFrags' = <<>>
                /\ output' = <<>>
                /\ UNCHANGED measurementIndex
    /\ UNCHANGED <<prog, stackVars, nonFixedVars>>

CnetReceive(frag) ==
    /\ prog = "cnet"
    /\ measurementIndex < MaxFrames
    /\ LET data == measurementData \o frag
           count == fragmentCounter + 1
       IN  IF count = FRAGMENTS_PER_MEASUREMENT
           THEN /\ output' = data
                /\ event' = "completed"
                /\ frameFrags' = Append(appended, frag)
                /\ measurementIndex' = measurementIndex + 1
                /\ fragmentCounter' = 0
                /\ measurementData' = <<>>
                /\ appended' = <<>>
           ELSE /\ measurementData' = data
                /\ fragmentCounter' = count
                /\ appended' = Append(appended, frag)
                /\ event' = "capturing"
                /\ frameFrags' = <<>>
                /\ output' = <<>>
                /\ UNCHANGED measurementIndex
    /\ UNCHANGED <<prog, stackVars, nonFixedVars>>

\* ------------------------------------------------------------ parse.cpp
\* one iteration of the receive loop with received_bytes > 0; the stack is
\* handed to process_packet_stack when PACKETS_TO_STACK packets are in it
ParseReceive(frag) ==
    /\ prog = "parse"
    /\ LET stack == current_packet_stack \o frag
           count == packets_in_stack + 1
       IN  IF count >= PACKETS_TO_STACK
           THEN /\ output' = stack
                /\ event' = "completed"
                /\ frameFrags' = Append(appended, frag)
                /\ current_packet_stack' = <<>>
                /\ packets_in_stack' = 0
                /\ appended' = <<>>
           ELSE /\ current_packet_stack' = stack
                /\ packets_in_stack' = count
                /\ appended' = Append(appended, frag)
                /\ event' = "capturing"
                /\ frameFrags' = <<>>
                /\ output' = <<>>
    /\ UNCHANGED <<prog, cnetVars, droppedCounter, nonFixedVars>>

\* --------------------------------------------------------- checksum.cpp
\* one iteration of the receive loop with received >= 0: a datagram of at
\* most UDP_HEADER_SIZE bytes is discarded, otherwise its payload is
\* appended; the third fragment triggers check_checksum, the save, the reset
ChecksumReceive_SavesUnverified(frag) ==
    /\ prog = "checksum"
    /\ measurementIndex < MaxFrames
    /\ IF Len(frag) > UDP_HEADER_SIZE
       THEN LET payload == DropBytes(frag, UDP_HEADER_SIZE)
                data == measurementData \o payload
                count == fragmentCounter + 1
            IN  IF count = FRAGMENTS_PER_MEASUREMENT
                THEN /\ event' = "completed"
                     /\ output' = data
                     /\ measurementIndex' = measurementIndex + 1
                     /\ frameFrags' = Append(appended, payload)
                     /\ fragmentCounter' = 0
                     /\ measurementData' = <<>>
                     /\ appended' = <<>>
                ELSE /\ measurementData' = data
                     /\ fragmentCounter' = count
                     /\ appended' = Append(appended, payload)
                     /\ event' = "capturing"
                     /\ frameFrags' = <<>>
                     /\ output' = <<>>
                     /\ UNCHANGED measurementIndex
       ELSE /\ event' = "dropped"
            /\ frameFrags' = <<>>
            /\ output' = <<>>
            /\ UNCHANGED <<cnetVars, appended>>
    /\ UNCHANGED <<prog, stackVars, nonFixedVars>>

ChecksumReceive_NoReset(frag) ==
    /\ prog = "checksum"
    /\ measurementIndex < MaxFrames
    /\ IF Len(frag) > UDP_HEADER_SIZE
       THEN LET payload == DropBytes(frag, UDP_HEADER_SIZE)
                data == measurementData \o payload
                count == fragmentCounter + 1
            IN  IF count = FRAGMENTS_PER_MEASUREMENT
                THEN /\ IF check_checksum(data)
                        THEN /\ event' = "completed"
                             /\ output' = data
                             /\ measurementIndex' = measurementIndex + 1
                        ELSE /\ event' = "rejected"
                             /\ output' = <<>>
                             /\ UNCHANGED measurementIndex
                     /\ frameFrags' = Append(appended, payload)
                     /\ fragmentCounter' = count
                     /\ measurementData' = data
                     /\ appended' = <<>>
                ELSE /\ measurementData' = data
                     /\ fragmentCounter' = count
                     /\ appended' = Append(appended, payload)
                     /\ event' = "capturing"
                     /\ frameFrags' = <<>>
                     /\ output' = <<>>
                     /\ UNCHANGED measurementIndex
       ELSE /\ event' = "dropped"
            /\ frameFrags' = <<>>
            /\ output' = <<>>
            /\ UNCHANGED <<cnetVars, appended>>
    /\ UNCHANGED <<prog, stackVars, nonFixedVars>>

ChecksumReceive(frag) ==
    /\ prog = "checksum"
    /\ measurementIndex < MaxFrames
    /\ IF Len(frag) > UDP_HEADER_SIZE
       THEN LET payload == DropBytes(frag, UDP_HEADER_SIZE)
                data == measurementData \o payload
                count == fragmentCounter + 1
            IN  IF count = FRAGMENTS_PER_MEASUREMENT
                THEN /\ IF check_checksum(data)
                        THEN /\ event' = "completed"
                             /\ output' = data
                             /\ measurementIndex' = measurementIndex + 1
                        ELSE /\ event' = "rejected"
                             /\ output' = <<>>
                             /\ UNCHANGED measurementIndex
                     /\ frameFrags' = Append(appended, payload)
                     /\ fragmentCounter' = 0
                     /\ measurementData' = <<>>
                     /\ appended' = <<>>
                ELSE /\ measurementData' = data
                     /\ fragmentCounter' = count
                     /\ appended' = Append(appended, payload)
                     /\ event' = "capturing"
                     /\ frameFrags' = <<>>
                     /\ output' = <<>>
                     /\ UNCHANGED measurementIndex
       ELSE /\ event' = "dropped"
            /\ frameFrags' = <<>>
            /\ output' = <<>>
            /\ UNCHANGED <<cnetVars, appended>>
    /\ UNCHANGED <<prog, stackVars, nonFixedVars>>

ParseChecksumReceive_DropClearsStack(frag) ==
    /\ prog = "parse_checksum"
    /\ droppedCounter < MaxDropped
    /\ IF verify_checksum_crc32(initialize_crc32_table, frag)
       THEN LET stack == current_packet_stack \o frag
                count == packets_in_stack + 1
            IN  /\ IF count >= PACKETS_TO_STACK
                   THEN /\ output' = stack
                        /\ event' = "completed"
                        /\ frameFrags' = Append(appended, frag)
                        /\ current_packet_stack' = <<>>
                        /\ packets_in_stack' = 0
                        /\ appended' = <<>>
                   ELSE /\ current_packet_stack' = stack
                        /\ packets_in_stack' = count
                        /\ appended' = Append(appended, frag)
                        /\ event' = "capturing"
                        /\ frameFrags' = <<>>
                        /\ output' = <<>>
                /\ UNCHANGED droppedCounter
       ELSE /\ droppedCounter' = droppedCounter + 1
            /\ event' = "dropped"
            /\ frameFrags' = <<>>
            /\ output' = <<>>
            /\ current_packet_stack' = <<>>
            /\ packets_in_stack' = 0
            /\ appended' = <<>>
    /\ UNCHANGED <<prog, cnetVars, nonFixedVars>>

\* --------------------------------------------------- parse_checksum.cpp
\* one iteration of the receive loop with received_bytes > 0; main() has
\* called initialize_crc32_table() before the loop starts
ParseChecksumReceive(frag) ==
    /\ prog = "parse_checksum"
    /\ droppedCounter < MaxDropped
    /\ IF verify_checksum_crc32(initialize_crc32_table, frag)
       THEN LET stack == current_packet_stack \o frag
                count == packets_in_stack + 1
            IN  /\ IF count >= PACKETS_TO_STACK
                   THEN /\ output' = stack
                        /\ event' = "completed"
                        /\ frameFrags' = Append(appended, frag)
                        /\ current_packet_stack' = <<>>
                        /\ packets_in_stack' = 0
                        /\ appended' = <<>>
                   ELSE /\ current_packet_stack' = stack
                        /\ packets_in_stack' = count
                        /\ appended' = Append(appended, frag)
                        /\ event' = "capturing"
                        /\ frameFrags' = <<>>
                        /\ output' = <<>>
                /\ UNCHANGED droppedCounter
       ELSE /\ droppedCounter' = droppedCounter + 1
            /\ event' = "dropped"
            /\ frameFrags' = <<>>
            /\ output' = <<>>
            /\ UNCHANGED <<current_packet_stack, packets_in_stack, appended>>
    /\ UNCHANGED <<prog, cnetVars, nonFixedVars>>

\* -------------------------------------------------- parse_checksum3.cpp
\* one iteration of the receive loop with received_bytes > 0
ParseChecksum3Receive(frag) ==
    /\ prog = "parse_checksum3"
    /\ droppedCounter < MaxDropped
    /\ IF verify_checksum_xor8(frag)
       THEN LET stack == current_packet_stack \o frag
                count == packets_in_stack + 1
            IN  /\ IF count >= PACKETS_TO_STACK
                   THEN /\ output' = stack
                        /\ event' = "completed"
                        /\ frameFrags' = Append(appended, frag)
                        /\ current_packet_stack' = <<>>
                        /\ packets_in_stack' = 0
                        /\ appended' = <<>>
                   ELSE /\ current_packet_stack' = stack
                        /\ packets_in_stack' = count
                        /\ appended' = Append(appended, frag)
                        /\ event' = "capturing"
                        /\ frameFrags' = <<>>
                        /\ output' = <<>>
                /\ UNCHANGED droppedCounter
       ELSE /\ droppedCounter' = droppedCounter + 1
            /\ event' = "dropped"
            /\ frameFrags' = <<>>
            /\ output' = <<>>
            /\ UNCHANGED <<current_packet_stack, packets_in_stack, appended>>
    /\ UNCHANGED <<prog, cnetVars, nonFixedVars>>

\* ---------------------------------------------------------- fumadon.cpp
\* one iteration of the receive loop with received_bytes > 0; the result
\* of verify_udp_integrity is not looked at
FumadonReceive(frag) ==
    /\ prog = "fumadon"
    /\ LET ignored == verify_udp_integrity(frag)
           stack == current_packet_stack \o frag
           count == packets_in_stack + 1
       IN  IF count >= PACKETS_TO_STACK
           THEN /\ output' = stack
                /\ event' = "completed"
                /\ frameFrags' = Append(appended, frag)
                /\ current_packet_stack' = <<>>
                /\ packets_in_stack' = 0
                /\ appended' = <<>>
           ELSE /\ current_packet_stack' = stack
                /\ packets_in_stack' = count
                /\ appended' = Append(appended, frag)
                /\ event' = "capturing"
                /\ frameFrags' = <<>>
                /\ output' = <<>>
    /\ UNCHANGED <<prog, cnetVars, droppedCounter, nonFixedVars>>

\* -------------------------------------------------------- start_end.cpp
\* bytes of the enumerated datagrams: the marker bytes FF 07 00 29
MarkerBytes == {255, 7, 0, 41}
\* longest datagram enumerated byte by byte for the marker detector
MaxMarkerFragLen == 2
\* the detector is not fed further while more bytes than this are buffered
MaxBuf == 4

\* datagrams longer than MaxMarkerFragLen: the boundary scenario, a start
\* marker after leading bytes, an end marker inside a datagram, a second
\* start marker behind a complete measurement
ScenarioDatagrams ==
    { <<170, 255, 7, 16, 32, 0, 41>>,
      <<170, 16, 255, 7>>,
      <<16, 0, 41, 16>>,
      <<255, 7, 0, 41, 255, 7>>,
      <<255, 7, 16>> }

MarkerDatagrams == SeqsOver(MarkerBytes, 1, MaxMarkerFragLen) \cup ScenarioDatagrams

endsWith0029_FirstByteOnly(v) ==
    LET n == Len(v) IN n >= 2 /\ v[n] = 41

endsWith0029(v) ==
    LET n == Len(v) IN n >= 2 /\ v[n - 1] = 0 /\ v[n] = 41

\* the condition of the first if of the byte loop; i is the C index
StartDetected_OnlyAtFront(bytes, i, cap) ==
    /\ ~cap
    /\ i = 0
    /\ i < Len(bytes) - 1
    /\ bytes[i + 1] = 255
    /\ bytes[i + 2] = 7

StartDetected(bytes, i, cap) ==
    /\ ~cap
    /\ i < Len(bytes) - 1
    /\ bytes[i + 1] = 255
    /\ bytes[i + 2] = 7

\* the for loop over the bytes of one datagram, from C index i on; st holds
\* measureBuffer, capturing, measureCounter and what the loop reported
RECURSIVE ScanBytes(_, _, _)
ScanBytes(bytes, i, st) ==
    IF i >= Len(bytes) THEN st
    ELSE IF StartDetected(bytes, i, st.cap)
    THEN ScanBytes(bytes, i + 2,
             [st EXCEPT !.cap = TRUE,
                        !.buf = <<255, 7>>,
                        !.trace = Append(@, [at |-> i, ev |-> "start",
                                             cap |-> TRUE, buf |-> <<255, 7>>])])
    ELSE IF st.cap
    THEN LET pushed == Append(st.buf, bytes[i + 1])
         IN  IF endsWith0029(pushed)
             THEN ScanBytes(bytes, i + 1,
                      [st EXCEPT !.count = @ + 1,
                                 !.captured = Append(@, pushed),
                                 !.cap = FALSE,
                                 !.buf = <<>>,
                                 !.trace = Append(@, [at |-> i, ev |-> "done",
                                                      cap |-> FALSE, buf |-> <<>>])])
             ELSE ScanBytes(bytes, i + 1,
                      [st EXCEPT !.buf = pushed,
                                 !.trace = Append(@, [at |-> i, ev |-> "append",
                                                      cap |-> TRUE, buf |-> pushed])])
    ELSE ScanBytes(bytes, i + 1,
             [st EXCEPT !.trace = Append(@, [at |-> i, ev |-> "skip",
                                             cap |-> FALSE, buf |-> st.buf])])

ScanStart_NotCapturing(buf, cap, count) ==
    [buf |-> buf, cap |-> FALSE, count |-> count, captured |-> <<>>,
     trace |-> <<>>]

\* the state the byte loop starts from
ScanStart(buf, cap, count) ==
    [buf |-> buf, cap |-> cap, count |-> count, captured |-> <<>>, trace |-> <<>>]

InitMarkerVars ==
    /\ measureBuffer = <<>>
    /\ capturing = FALSE
    /\ measureCounter = 0
    /\ datagram = <<>>
    /\ prevBuffer = <<>>
    /\ prevCapturing = FALSE
    /\ captured = <<>>
    /\ trace = <<>>

\* one iteration of the receive loop with received > 0
StartEndReceive(frag) ==
    /\ prog = "start_end"
    /\ measureCounter < MaxFrames
    /\ LET st == ScanBytes(frag, 0, ScanStart(measureBuffer, capturing, measureCounter))
       IN  /\ Len(st.buf) <= MaxBuf
           /\ measureBuffer' = st.buf
           /\ capturing' = st.cap
           /\ measureCounter' = st.count
           /\ captured' = st.captured
           /\ trace' = st.trace
    /\ datagram' = frag
    /\ prevBuffer' = measureBuffer
    /\ prevCapturing' = capturing
    /\ UNCHANGED <<prog, nonMarkerVars>>

\* ------------------- start_end.cpp, sick_packet_counter.cpp: a whole run
PACKETS_PER_MEASURE == 5
\* most datagrams received in a run
MaxArrivals == 3
\* most datagrams counted by sick_packet_counter.cpp
MaxPackets == 7

\* the senders recvfrom reports; the socket is bound to INADDR_ANY
Senders == {1, 2}
\* a start marker and a byte, an end marker, a byte, a whole measurement,
\* and the two halves of a start marker cut between FF and 07
StreamDatagrams ==
    {<<255, 7, 1>>, <<0, 41>>, <<5>>, <<255, 7, 2, 0, 41>>, <<255>>, <<7, 1>>}
\* sick_packet_counter.cpp: datagrams with and without FF 07
CounterDatagrams == {<<255, 7, 16>>, <<16, 32>>, <<255>>}

InitRunVars ==
    /\ listening = TRUE
    /\ arrivals = <<>>
    /\ packetsInCurrentMeasure = -1
    /\ packetCounter = 0

\* start_end.cpp: one iteration of the receive loop with received > 0,
\* the sender recvfrom filled in recorded next to the bytes
StartEndReceiveFrom(sender, frag) ==
    /\ prog = "start_end"
    /\ listening
    /\ Len(arrivals) < MaxArrivals
    /\ measureCounter < MaxFrames
    /\ LET st == ScanBytes(frag, 0, ScanStart(measureBuffer, capturing, measureCounter))
       IN  /\ Len(st.buf) <= MaxBuf
           /\ measureBuffer' = st.buf
           /\ capturing' = st.cap
           /\ measureCounter' = st.count
           /\ captured' = st.captured
           /\ trace' = st.trace
    /\ datagram' = frag
    /\ prevBuffer' = measureBuffer
    /\ prevCapturing' = capturing
    /\ arrivals' = Append(arrivals, [sender |-> sender, bytes |-> frag])
    /\ UNCHANGED <<prog, fixedVars, verifyVars, tableVars, decodeVars,
                   listening, packetsInCurrentMeasure, packetCounter>>

containsFF07_FirstByteOnly(buf) ==
    /\ Len(buf) >= 1
    /\ \E i \in 1..Len(buf) : buf[i] = 255

\* sick_packet_counter.cpp: containsFF07
containsFF07(buf) ==
    /\ Len(buf) >= 2
    /\ \E i \in 1..(Len(buf) - 1) : buf[i] = 255 /\ buf[i + 1] = 7

\* sick_packet_counter.cpp: one iteration of the loop with received > 0;
\* the bytes recvfrom wrote to buffer are recorded in arrivals (the sender
\* is never looked at)
CounterReceive(frag) ==
    /\ prog = "sick_packet_counter"
    /\ listening
    /\ packetCounter < MaxPackets
    /\ LET isFF07Packet == packetsInCurrentMeasure = -1 /\ containsFF07(frag)
           counted ==
               IF isFF07Packet THEN 1
               ELSE IF /\ packetsInCurrentMeasure >= 1
                       /\ packetsInCurrentMeasure < PACKETS_PER_MEASURE
               THEN packetsInCurrentMeasure + 1
               ELSE packetsInCurrentMeasure
       IN  /\ measureCounter' =
                  IF isFF07Packet THEN measureCounter + 1 ELSE measureCounter
           /\ packetsInCurrentMeasure' =
                  IF counted = PACKETS_PER_MEASURE THEN -1 ELSE counted
    /\ packetCounter' = packetCounter + 1
    /\ arrivals' = Append(arrivals, [sender |-> 1, bytes |-> frag])
    /\ UNCHANGED <<prog, fixedVars, verifyVars, tableVars, decodeVars,
                   measureBuffer, capturing, datagram, prevBuffer,
                   prevCapturing, captured, trace, listening>>

\* sick_packet_counter.cpp: the figures of the summary printed after the
\* loop; both are long
expectedPackets == measureCounter * PACKETS_PER_MEASURE
lostPackets == expectedPackets - packetCounter

\* the time limit is reached at the top of the loop: break. Nothing else
\* is assigned; sick_packet_counter.cpp goes on to print measureCounter as
\* the scans collected, start_end.cpp returns
DurationLimit ==
    /\ prog \in {"start_end", "sick_packet_counter"}
    /\ listening
    /\ listening' = FALSE
    /\ UNCHANGED <<prog, fixedVars, markerVars, verifyVars, tableVars,
                   decodeVars, arrivals, packetsInCurrentMeasure,
                   packetCounter>>

\* ------------------------------- trame2.cpp, parse.cpp: the decoders
MIN_SIZE == 84
DATA_BLOCK_START_INDEX == 80
CUSTOM_PREAMBLE_SIZE == 20
BYTES_PER_POINT == 4

\* the byte at offset idx (from 0); a read behind the end of the buffer
\* returns whatever the memory there holds
ByteAt(data, idx, stray) ==
    IF idx < Len(data) THEN data[idx + 1] ELSE IF stray < 0 THEN 0 ELSE stray

\* memcpy of the 4 bytes at offset idx + le_to_h_u32
Field32(data, idx, stray) ==
    le_to_h_u32([j \in 1..4 |-> ByteAt(data, idx + j - 1, stray)])

DecodePoint_DistanceOf12Bits(b) ==
    LET dist_status == b[1] + 256 * b[2]
    IN  [distance_mm |-> BitAnd(dist_status, 4095),
         status_flags |-> BitAnd(dist_status \div 8192, 7),
         rssi |-> b[3] + 256 * b[4]]

DecodePoint_StatusFromBit12(b) ==
    LET dist_status == b[1] + 256 * b[2]
    IN  [distance_mm |-> BitAnd(dist_status, 8191),
         status_flags |-> BitAnd(dist_status \div 4096, 7),
         rssi |-> b[3] + 256 * b[4]]

\* one point record: the distance/status word and the RSSI word
DecodePoint(b) ==
    LET dist_status == b[1] + 256 * b[2]
    IN  [distance_mm |-> BitAnd(dist_status, 8191),
         status_flags |-> BitAnd(dist_status \div 8192, 7),
         rssi |-> b[3] + 256 * b[4]]

\* a uint32_t widened to size_t. The model's integers end at 2^31: every
\* value from 2^30 up is kept as 2^30, beyond every buffer and count here
SizeOf(x) == IF x.hi >= 16384 THEN 1073741824 ELSE x.lo + 65536 * x.hi

\* nothing read, nothing decoded
NoDecode ==
    [outcome |-> "none", warning |-> FALSE, scan_id |-> U32(0, 0),
     measurement_data_offset |-> U32(0, 0),
     header_reads |-> {}, block_reads |-> {}, point_reads |-> {},
     points |-> <<>>, block_start |-> 0, at |-> 0, left |-> 0,
     skipped |-> {}, data_bytes_remaining |-> 0]

\* the point loops; st.at is the offset of the next record, st.left the
\* records still to decode. stray < 0: a read behind the buffer faults
RECURSIVE PointLoop(_, _, _)
PointLoop(data, stray, st) ==
    IF st.left = 0 THEN st
    ELSE LET record == st.at..(st.at + BYTES_PER_POINT - 1)
         IN  IF stray < 0 /\ st.at + BYTES_PER_POINT > Len(data)
             THEN [st EXCEPT !.outcome = "fault",
                             !.point_reads = @ \cup record]
             ELSE PointLoop(data, stray,
                      [st EXCEPT
                          !.points = Append(@, DecodePoint(
                              [j \in 1..4 |-> ByteAt(data, st.at + j - 1, stray)])),
                          !.point_reads = @ \cup record,
                          !.at = @ + BYTES_PER_POINT,
                          !.left = @ - 1])

FileHeaderFits_PreambleOf20(data) == Len(data) >= DATA_BLOCK_START_INDEX

\* trame2.cpp: the buffer holds the 24-byte datagram header and the
\* 60-byte SICK header
FileHeaderFits(data) == Len(data) >= MIN_SIZE

\* trame2.cpp: process_file_content; the offsets are size_t sums, which do
\* not wrap
process_file_content(data, stray) ==
    IF ~FileHeaderFits(data)
    THEN [NoDecode EXCEPT !.outcome = "HeaderTooSmall"]
    ELSE LET header ==
                 [NoDecode EXCEPT
                     !.header_reads = UDP_HEADER_SIZE..(UDP_HEADER_SIZE + 59),
                     !.scan_id = Field32(data, UDP_HEADER_SIZE + 20, stray),
                     !.measurement_data_offset =
                         Field32(data, UDP_HEADER_SIZE + 40, stray)]
             measurement_data_offset == header.measurement_data_offset
             data_block_start_index ==
                 UDP_HEADER_SIZE + SizeOf(measurement_data_offset)
         IN  IF measurement_data_offset = U32(0, 0)
             THEN [header EXCEPT !.outcome = "NoMeasurementData"]
             ELSE IF data_block_start_index + 4 >= Len(data)
             THEN [header EXCEPT !.outcome = "OffsetOutOfBounds",
                                 !.block_start = data_block_start_index]
             ELSE LET block_length ==
                          Field32(data, data_block_start_index, stray)
                      fitting == SizeOf(block_length) \div BYTES_PER_POINT
                      \* the loop stops after 20 points
                      shown == IF fitting >= 20 THEN 20 ELSE fitting
                  IN  PointLoop(data, stray,
                          [header EXCEPT
                              !.outcome = "decoded",
                              !.block_start = data_block_start_index,
                              !.block_reads = data_block_start_index..
                                                  (data_block_start_index + 3),
                              !.at = data_block_start_index + 4,
                              !.left = shown])

\* parse.cpp: process_packet_stack
process_packet_stack(data) ==
    IF Len(data) < DATA_BLOCK_START_INDEX
    THEN [NoDecode EXCEPT !.outcome = "HeaderTooSmall"]
    ELSE LET total_data_bytes == Len(data) - DATA_BLOCK_START_INDEX
         IN  PointLoop(data, 0,
                 [NoDecode EXCEPT
                     !.outcome = "decoded",
                     !.warning = (total_data_bytes % BYTES_PER_POINT # 0),
                     !.header_reads =
                         CUSTOM_PREAMBLE_SIZE..(CUSTOM_PREAMBLE_SIZE + 59),
                     !.scan_id = Field32(data, CUSTOM_PREAMBLE_SIZE + 20, 0),
                     !.block_start = DATA_BLOCK_START_INDEX,
                     !.at = DATA_BLOCK_START_INDEX,
                     !.left = total_data_bytes \div BYTES_PER_POINT])

\* fumadon.cpp: process_packet_stack, which stops after 20 points
fumadon_process_packet_stack(data) ==
    IF Len(data) < DATA_BLOCK_START_INDEX
    THEN [NoDecode EXCEPT !.outcome = "HeaderTooSmall"]
    ELSE LET total_measurement_data_bytes == Len(data) - DATA_BLOCK_START_INDEX
             total_points == total_measurement_data_bytes \div BYTES_PER_POINT
         IN  PointLoop(data, 0,
                 [NoDecode EXCEPT
                     !.outcome = "decoded",
                     !.warning =
                         (total_measurement_data_bytes % BYTES_PER_POINT # 0),
                     !.header_reads =
                         CUSTOM_PREAMBLE_SIZE..(CUSTOM_PREAMBLE_SIZE + 59),
                     !.scan_id = Field32(data, CUSTOM_PREAMBLE_SIZE + 20, 0),
                     !.block_start = DATA_BLOCK_START_INDEX,
                     !.at = DATA_BLOCK_START_INDEX,
                     !.left = IF total_points >= 20 THEN 20 ELSE total_points])

\* parse_checksum.cpp: the point loop of process_packet_stack; after each
\* record it skips CHECKSUM_SIZE bytes when the offset behind the header is
\* a multiple of data.size() / total_packets
RECURSIVE ChecksumPointLoop(_, _, _, _)
ChecksumPointLoop(data, total_packets, stray, st) ==
    IF st.left = 0 THEN st
    ELSE LET record == st.at..(st.at + BYTES_PER_POINT - 1)
             next == st.at + BYTES_PER_POINT
             remaining == st.data_bytes_remaining - BYTES_PER_POINT
             skip ==
                 /\ remaining > 0
                 /\ (next - DATA_BLOCK_START_INDEX)
                        % (Len(data) \div total_packets) = 0
         IN  IF stray < 0 /\ next > Len(data)
             THEN [st EXCEPT !.outcome = "fault",
                             !.point_reads = @ \cup record]
             ELSE ChecksumPointLoop(data, total_packets, stray,
                      [st EXCEPT
                          !.points = Append(@, DecodePoint(
                              [j \in 1..4 |-> ByteAt(data, st.at + j - 1, stray)])),
                          !.point_reads = @ \cup record,
                          !.data_bytes_remaining = remaining,
                          !.skipped =
                              IF skip
                              THEN @ \cup next..(next + CHECKSUM_SIZE_CRC32 - 1)
                              ELSE @,
                          !.at = IF skip THEN next + CHECKSUM_SIZE_CRC32 ELSE next,
                          !.left = @ - 1])

\* parse_checksum.cpp: process_packet_stack. The byte counts are size_t:
\* when the checksums outnumber the payload bytes the difference wraps
\* to a value beyond every buffer, kept here as 2^30
checksum_process_packet_stack(data, total_packets, stray) ==
    IF Len(data) < DATA_BLOCK_START_INDEX
    THEN [NoDecode EXCEPT !.outcome = "HeaderTooSmall"]
    ELSE LET total_payload_bytes == Len(data) - DATA_BLOCK_START_INDEX
             total_checksum_bytes == total_packets * CHECKSUM_SIZE_CRC32
             total_measurement_data_bytes ==
                 IF total_payload_bytes >= total_checksum_bytes
                 THEN total_payload_bytes - total_checksum_bytes
                 ELSE 1073741824
                          + ((total_payload_bytes - total_checksum_bytes)
                                 % BYTES_PER_POINT)
             total_points == total_measurement_data_bytes \div BYTES_PER_POINT
         IN  ChecksumPointLoop(data, total_packets, stray,
                 [NoDecode EXCEPT
                     !.outcome = "decoded",
                     !.warning =
                         (total_measurement_data_bytes % BYTES_PER_POINT # 0),
                     !.header_reads =
                         CUSTOM_PREAMBLE_SIZE..(CUSTOM_PREAMBLE_SIZE + 59),
                     !.scan_id = Field32(data, CUSTOM_PREAMBLE_SIZE + 20, stray),
                     !.block_start = DATA_BLOCK_START_INDEX,
                     !.at = DATA_BLOCK_START_INDEX,
                     !.data_bytes_remaining = total_measurement_data_bytes,
                     !.left = IF total_points >= 20 THEN 20 ELSE total_points])

\* the 60-byte SICK header: scan_num at offset 20, offset_measurement_data
\* at offset 40, little-endian, zero elsewhere
SickHeader(scan_num, offset_measurement_data) ==
    [i \in 1..60 |->
        IF i \in 21..24 THEN Le32Bytes(scan_num)[i - 20]
        ELSE IF i \in 41..44 THEN Le32Bytes(offset_measurement_data)[i - 40]
        ELSE 0]

\* most point records behind a block's length field
MaxPoints == 2
PointRecords == {<<52, 18, 100, 0>>, <<255, 255, 255, 255>>}
\* length fields, complete or cut short, the records and the bytes left over
BlockTails ==
    {<<>>, <<4>>, <<4, 0, 0>>}
    \cup {Le32Bytes(n) \o Flatten(ps) \o extra :
             n \in {U32(0, 0), U32(4, 0), U32(7, 0), U32(8, 0), U32(84, 0),
                    U32(0, 1)},
             ps \in SeqsOver(PointRecords, 0, MaxPoints),
             extra \in {<<>>, <<9>>}}
\* values of the header's 32-bit fields
HeaderWords ==
    {U32(0, 0), U32(60, 0), U32(61, 0), U32(64, 0), U32(60, 1),
     U32(513, 1027), U32(65535, 65535)}
\* files and stacks: too short for a header, or the bytes in front of the
\* SICK header (24 in a file, 20 in a stack) + SICK header + what follows;
\* blocks of one record with the bits of its words around 2^13 set; and
\* blocks of 20 and 21 records, with and without a byte left over
DecoderBuffers(preamble) ==
    {[i \in 1..n |-> 7] : n \in {0, 1, 79, 80, 83}}
    \cup {[i \in 1..preamble |-> 77] \o SickHeader(scan, offset) \o t :
             scan \in HeaderWords \ {U32(0, 0), U32(61, 0), U32(64, 0)},
             offset \in HeaderWords, t \in BlockTails}
    \cup {[i \in 1..preamble |-> 77] \o SickHeader(U32(1, 0), U32(60, 0))
              \o Le32Bytes(U32(4, 0)) \o <<b0, b1, b2, b3>> :
             b0 \in {0, 52, 255}, b1 \in {0, 18, 31, 32, 64, 128, 224, 255},
             b2 \in {1, 100}, b3 \in {0, 2, 255}}
    \cup {[i \in 1..preamble |-> 77] \o SickHeader(U32(1, 0), U32(60, 0))
              \o [i \in 1..n |-> i] : n \in {81, 84, 85}}
\* what a read behind the buffer returns; -1: the read faults
StrayReads == {0, 255, -1}

InitDecodeVars ==
    /\ decoder = "none"
    /\ decoded = NoDecode

\* trame2.cpp: process_file_content on the content of one file
DecodeFile(data, stray) ==
    /\ prog = "decode"
    /\ decoder = "none"
    /\ decoder' = "file"
    /\ packet_data' = data
    /\ decoded' = process_file_content(data, stray)
    /\ UNCHANGED <<prog, fixedVars, markerVars, tableVars, runVars, algorithm,
                   verdict,
                   origin>>

\* parse.cpp: process_packet_stack on a stack of datagrams
DecodeStack(data) ==
    /\ prog = "decode"
    /\ decoder = "none"
    /\ decoder' = "stack"
    /\ packet_data' = data
    /\ decoded' = process_packet_stack(data)
    /\ UNCHANGED <<prog, fixedVars, markerVars, tableVars, runVars, algorithm,
                   verdict,
                   origin>>

\* fumadon.cpp: process_packet_stack on a stack of datagrams
DecodeFumadon(data) ==
    /\ prog = "decode"
    /\ decoder = "none"
    /\ decoder' = "fumadon"
    /\ packet_data' = data
    /\ decoded' = fumadon_process_packet_stack(data)
    /\ UNCHANGED <<prog, fixedVars, markerVars, tableVars, runVars, algorithm,
                   verdict,
                   origin>>

\* parse_checksum.cpp: a datagram that passes verify_checksum
Crc32Datagram(payload) ==
    payload \o Le32Bytes(calculate_crc32(initialize_crc32_table, payload))
\* stacks of three verified datagrams: the first holds preamble, header
\* and its records, the others records only
ChecksumStacks ==
    LET records(n, b) == Flatten([i \in 1..n |-> <<b, 0, b, 0>>])
    IN  {<<Crc32Datagram([i \in 1..CUSTOM_PREAMBLE_SIZE |-> 77]
                \o SickHeader(U32(1, 0), U32(60, 0)) \o records(n[1], 1)),
           Crc32Datagram(records(n[2], 2)), Crc32Datagram(records(n[3], 3))>> :
             n \in ((1..2) \X (0..2) \X (1..2)) \cup {<<4, 5, 4>>}}
        \cup {<<Crc32Datagram([i \in 1..70 |-> 77]),
                Crc32Datagram(<<4, 0, 4, 0>>), Crc32Datagram(<<>>)>>}

\* parse_checksum.cpp: process_packet_stack on a stack of verified
\* datagrams, as main calls it when the third has been stacked
DecodeChecksumStack(frags, stray) ==
    /\ prog = "decode"
    /\ decoder = "none"
    /\ decoder' = "checksum_stack"
    /\ frameFrags' = frags
    /\ packet_data' = Flatten(frags)
    /\ decoded' = checksum_process_packet_stack(Flatten(frags), Len(frags), stray)
    /\ UNCHANGED <<prog, cnetVars, stackVars, event, appended, output,
                   markerVars, tableVars, runVars, algorithm, verdict, origin>>

\* ------------------------------------------------- the verifiers alone
\* bytes of the buffers the verifiers are called on
VerifyBytes == {0, 1, 255}
\* longest buffer enumerated byte by byte for the verifiers
MaxVerifyLen == 4

VerifyInputs == SeqsOver(VerifyBytes, 0, MaxVerifyLen)

\* 8bit_check.cpp leaves the first HEADER_AND_PREAMBLE_SIZE bytes out of the
\* sum: the enumerated bytes are also tried behind a header of that size
SickHeader80 == [i \in 1..HEADER_AND_PREAMBLE_SIZE |-> (i % 3)]
\* data 01 02 03 followed by its sum, by the complement of its sum and by
\* the complement less one
Sum8Scenario == {<<1, 2, 3, 6>>, <<1, 2, 3, 249>>, <<1, 2, 3, 248>>}
Sum8Inputs ==
    VerifyInputs \cup Sum8Scenario
    \cup {SickHeader80 \o q : q \in VerifyInputs \cup Sum8Scenario}

\* checksum.cpp: the 18 bytes in front of the CRC field, then the field
\* (right, wrong or zero), then up to MaxTailLen more bytes; the same buffers
\* with the CRC-16 of all their bytes appended; and the short buffers
MaxTailLen == 2
Crc16Fields == {Ms3GoodCrc, Ms3BadCrc, <<0, 0>>}
Crc16Framed ==
    {Ms3PayloadA \o Ms3PayloadB \o f \o t :
         f \in Crc16Fields, t \in SeqsOver(VerifyBytes, 0, MaxTailLen)}
Crc16Inputs ==
    VerifyInputs \cup Crc16Framed
    \cup {b \o Le16Bytes(crc16_ccitt(b)) : b \in Crc16Framed}

\* each run makes one verifier call on one buffer
InitVerifyVars ==
    /\ algorithm = "none"
    /\ packet_data = <<>>
    /\ verdict = FALSE
    /\ origin = "received"
    \* main has called initialize_crc32_table() before its receive loop
    /\ crc32_table_ready = TRUE
    /\ calls = 0
    /\ earlier = FALSE
    /\ computed = U32(0, 0)

\* parse_checksum.cpp: verify_checksum after initialize_crc32_table()
VerifyCrc32(packet) ==
    /\ prog = "verify"
    /\ algorithm = "none"
    /\ algorithm' = "crc32"
    /\ packet_data' = packet
    /\ verdict' = verify_checksum_crc32(initialize_crc32_table, packet)
    /\ origin' = "received"
    /\ UNCHANGED <<prog, nonVerifyVars>>

\* parse_checksum3.cpp: verify_checksum
VerifyXor8(packet) ==
    /\ prog = "verify"
    /\ algorithm = "none"
    /\ algorithm' = "xor8"
    /\ packet_data' = packet
    /\ verdict' = verify_checksum_xor8(packet)
    /\ origin' = "received"
    /\ UNCHANGED <<prog, nonVerifyVars>>

\* 8bit_check.cpp: verify_checksum
VerifySum8(packet) ==
    /\ prog = "verify"
    /\ algorithm = "none"
    /\ algorithm' = "sum8"
    /\ packet_data' = packet
    /\ verdict' = verify_checksum_sum8(packet)
    /\ origin' = "received"
    /\ UNCHANGED <<prog, nonVerifyVars>>

\* fumadon.cpp: verify_udp_integrity
VerifyUdp(packet) ==
    /\ prog = "verify"
    /\ algorithm = "none"
    /\ algorithm' = "udp16"
    /\ packet_data' = packet
    /\ verdict' = verify_udp_integrity(packet)
    /\ origin' = "received"
    /\ UNCHANGED <<prog, nonVerifyVars>>

\* checksum.cpp: check_checksum
VerifyCrc16(packet) ==
    /\ prog = "verify"
    /\ algorithm = "none"
    /\ algorithm' = "crc16"
    /\ packet_data' = packet
    /\ verdict' = check_checksum(packet)
    /\ origin' = "received"
    /\ UNCHANGED <<prog, nonVerifyVars>>

\* payloads a sender appends a check value to: the enumerated ones, alone
\* or behind 80 header bytes (zero, or with a non-zero byte sum)
ZeroHeader80 == [i \in 1..HEADER_AND_PREAMBLE_SIZE |-> 0]
RoundTripPayloads ==
    VerifyInputs
    \cup {h \o q : h \in {SickHeader80, ZeroHeader80}, q \in VerifyInputs}

\* parse_checksum.cpp: verify_checksum on a payload followed by the
\* little-endian bytes of its calculate_crc32
RoundTripCrc32(payload) ==
    /\ prog = "verify"
    /\ algorithm = "none"
    /\ algorithm' = "crc32"
    /\ packet_data' =
           payload \o Le32Bytes(calculate_crc32(initialize_crc32_table, payload))
    /\ verdict' = verify_checksum_crc32(initialize_crc32_table, packet_data')
    /\ origin' = "encoded"
    /\ UNCHANGED <<prog, nonVerifyVars>>

\* parse_checksum3.cpp: verify_checksum on a payload followed by its
\* calculate_xor_checksum
RoundTripXor8(payload) ==
    /\ prog = "verify"
    /\ algorithm = "none"
    /\ algorithm' = "xor8"
    /\ packet_data' = Append(payload, calculate_xor_checksum(payload))
    /\ verdict' = verify_checksum_xor8(packet_data')
    /\ origin' = "encoded"
    /\ UNCHANGED <<prog, nonVerifyVars>>

\* 8bit_check.cpp: verify_checksum on a payload followed by its
\* calculate_sum_checksum
RoundTripSum8(payload) ==
    /\ prog = "verify"
    /\ algorithm = "none"
    /\ algorithm' = "sum8"
    /\ packet_data' = Append(payload, calculate_sum_checksum(payload))
    /\ verdict' = verify_checksum_sum8(packet_data')
    /\ origin' = "encoded"
    /\ UNCHANGED <<prog, nonVerifyVars>>

\* the bytes of "123456789", and the other buffers a check value is
\* calculated for
CheckString == <<49, 50, 51, 52, 53, 54, 55, 56, 57>>
CalculateInputs ==
    VerifyInputs \cup {CheckString, Ms3PayloadA, Ms3PayloadB, SickHeader80}

\* parse_checksum.cpp: calculate_crc32 after initialize_crc32_table()
CalculateCrc32(bytes) ==
    /\ prog = "verify"
    /\ algorithm = "none"
    /\ algorithm' = "calculate_crc32"
    /\ packet_data' = bytes
    /\ computed' = calculate_crc32(initialize_crc32_table, bytes)
    /\ UNCHANGED <<prog, fixedVars, markerVars, decodeVars, runVars, verdict, origin,
                   crc32_table_ready, calls, earlier>>

\* fumadon.cpp: calculate_udp_checksum
CalculateUdp(bytes) ==
    /\ prog = "verify"
    /\ algorithm = "none"
    /\ algorithm' = "calculate_udp_checksum"
    /\ packet_data' = bytes
    /\ computed' = U32(calculate_udp_checksum(bytes), 0)
    /\ UNCHANGED <<prog, fixedVars, markerVars, decodeVars, runVars, verdict, origin,
                   crc32_table_ready, calls, earlier>>

\* the buffers of even length a checksum word is appended to
SelfCheckPayloads == {b \in CalculateInputs : Len(b) % 2 = 0}

\* fumadon.cpp: calculate_udp_checksum over a buffer followed by the word
\* calculate_udp_checksum returned for it, stored as the unsigned short
\* pointer reads it
SelfCheckUdp(bytes) ==
    /\ prog = "verify"
    /\ algorithm = "none"
    /\ algorithm' = "udp_self_check"
    /\ packet_data' = bytes \o Le16Bytes(calculate_udp_checksum(bytes))
    /\ computed' = U32(calculate_udp_checksum(
                         bytes \o Le16Bytes(calculate_udp_checksum(bytes))), 0)
    /\ origin' = "encoded"
    /\ UNCHANGED <<prog, fixedVars, markerVars, decodeVars, runVars, verdict,
                   crc32_table_ready, calls, earlier>>

\* --------------------------------------- one byte replaced in transit
\* longest payload of the buffers a byte is replaced in
MaxCorruptLen == 2
CorruptPayloads == SeqsOver(VerifyBytes, 1, MaxCorruptLen)
\* every value of an unsigned char
ByteValues == 0..255
\* for the CRCs a byte arrives with one bit, or all its bits, inverted
FlipMasks == {1, 2, 4, 8, 16, 32, 64, 128, 255}
FlippedValues(b) == {BitXor(b, d) : d \in FlipMasks}

Be16Bytes(v) == <<v \div 256, v % 256>>

\* buffers the verifiers accept: a payload and its check value; for
\* check_checksum the 20-byte frame with the right CRC field, and a
\* 24-byte one whose CRC field (00 00, offset 18) is inside the bytes the
\* CRC is computed over
Crc32Framed ==
    {q \o Le32Bytes(calculate_crc32(initialize_crc32_table, q)) :
         q \in CorruptPayloads}
Xor8Framed == {Append(q, calculate_xor_checksum(q)) : q \in CorruptPayloads}
Sum8Framed ==
    {SickHeader80 \o Append(q, calculate_sum_checksum(q)) :
         q \in CorruptPayloads}
Crc16Selfchecked ==
    LET front == Ms3PayloadA \o Ms3PayloadB
    IN  {front \o Ms3GoodCrc,
         front \o <<0, 0>> \o Be16Bytes(crc16_ccitt(front \o <<0, 0>>))
               \o <<161, 178>>}

\* positions (from 1) of the bytes each verifier computes its value over
CheckedRange(alg, buffer) ==
    CASE alg = "crc16" -> 1..(Len(buffer) - 2)
      [] alg = "crc32" -> 1..(Len(buffer) - CHECKSUM_SIZE_CRC32)
      [] alg = "xor8" -> 1..(Len(buffer) - CHECKSUM_SIZE_XOR)
      [] alg = "sum8" ->
             (HEADER_AND_PREAMBLE_SIZE + 1)..(Len(buffer) - CHECKSUM_SIZE_SUM)

Verify(alg, buffer) ==
    CASE alg = "crc16" -> check_checksum(buffer)
      [] alg = "crc32" -> verify_checksum_crc32(initialize_crc32_table, buffer)
      [] alg = "xor8" -> verify_checksum_xor8(buffer)
      [] alg = "sum8" -> verify_checksum_sum8(buffer)

Crc16Accepted == {b \in Crc16Selfchecked : Verify("crc16", b)}
Crc32Accepted == {b \in Crc32Framed : Verify("crc32", b)}
Xor8Accepted == {b \in Xor8Framed : Verify("xor8", b)}
Sum8Accepted == {b \in Sum8Framed : Verify("sum8", b)}

\* the verifier alg called on an accepted buffer in which the byte at pos,
\* inside the checked range, arrives as a different value
Corrupted(alg, buffer, pos, value) ==
    /\ prog = "corrupt"
    /\ algorithm = "none"
    /\ pos \in CheckedRange(alg, buffer)
    /\ value # buffer[pos]
    /\ algorithm' = alg
    /\ packet_data' = [buffer EXCEPT ![pos] = value]
    /\ verdict' = Verify(alg, packet_data')
    /\ origin' = "corrupted"
    /\ UNCHANGED <<prog, nonVerifyVars>>

CorruptCrc16(buffer, pos, value) == Corrupted("crc16", buffer, pos, value)
CorruptCrc32(buffer, pos, value) == Corrupted("crc32", buffer, pos, value)
CorruptXor8(buffer, pos, value) == Corrupted("xor8", buffer, pos, value)
CorruptSum8(buffer, pos, value) == Corrupted("sum8", buffer, pos, value)

\* ------------------------------- the verifiers as functions of a buffer
\* static uint32_t crc32_table[256]: zero until initialize_crc32_table()
crc32_table_static == [i \in 0..255 |-> U32(0, 0)]

\* the verifier alg called in the current state of the program
VerifyNow(alg, buffer) ==
    CASE alg = "crc32" ->
             IF crc32_table_ready
             THEN verify_checksum_crc32(initialize_crc32_table, buffer)
             ELSE verify_checksum_crc32(crc32_table_static, buffer)
      [] alg = "udp16" -> verify_udp_integrity(buffer)
      [] OTHER -> Verify(alg, buffer)

Algorithms == {"crc16", "crc32", "xor8", "sum8", "udp16"}
CallInputs ==
    VerifyInputs \cup Crc16Selfchecked \cup Crc32Framed \cup Xor8Framed
    \cup Sum8Framed

\* state of the statics when no function of the program has run yet
InitStatics ==
    /\ algorithm = "none"
    /\ packet_data = <<>>
    /\ verdict = FALSE
    /\ origin = "received"
    /\ crc32_table_ready = FALSE
    /\ calls = 0
    /\ earlier = FALSE
    /\ computed = U32(0, 0)

\* parse_checksum.cpp: initialize_crc32_table()
InitializeCrc32Table ==
    /\ prog = "calls"
    /\ crc32_table_ready = FALSE
    /\ crc32_table_ready' = TRUE
    /\ UNCHANGED <<prog, fixedVars, markerVars, decodeVars, runVars, verifyVars, calls,
                   earlier, computed>>

\* the first call of a verifier on a buffer
FirstCall(alg, buffer) ==
    /\ prog = "calls"
    /\ calls = 0
    /\ algorithm' = alg
    /\ packet_data' = buffer
    /\ verdict' = VerifyNow(alg, buffer)
    /\ calls' = 1
    /\ UNCHANGED <<prog, fixedVars, markerVars, decodeVars, runVars, origin,
                   crc32_table_ready, earlier, computed>>

\* the same verifier called again on the same buffer
RepeatCall ==
    /\ prog = "calls"
    /\ calls = 1
    /\ earlier' = verdict
    /\ verdict' = VerifyNow(algorithm, packet_data)
    /\ calls' = 2
    /\ UNCHANGED <<prog, fixedVars, markerVars, decodeVars, runVars, algorithm,
                   packet_data, origin, crc32_table_ready, computed>>

\* ------------------------------------------------------- specifications
InitFixed ==
    prog \in FixedPrograms /\ InitFixedVars /\ InitMarkerVars /\ InitDecodeVars
    /\ InitRunVars
    /\ InitVerifyVars

NextFixed ==
    \/ \E frag \in CnetDatagrams : CnetReceive(frag)
    \/ \E frag \in ParseDatagrams : ParseReceive(frag)
    \/ \E frag \in ChecksumDatagrams : ChecksumReceive(frag)
    \/ \E frag \in ParseChecksumDatagrams : ParseChecksumReceive(frag)
    \/ \E frag \in ParseDatagrams : FumadonReceive(frag)
    \/ \E frag \in ParseChecksum3Datagrams : ParseChecksum3Receive(frag)

SpecFixed == InitFixed /\ [][NextFixed]_vars

InitMarker ==
    prog = "start_end" /\ InitFixedVars /\ InitMarkerVars /\ InitDecodeVars
    /\ InitRunVars
    /\ InitVerifyVars

NextMarker == \E frag \in MarkerDatagrams : StartEndReceive(frag)

SpecMarker == InitMarker /\ [][NextMarker]_vars

\* checksum.cpp or start_end.cpp: the two programs that finalize a frame
InitReset ==
    /\ prog \in {"checksum", "start_end"}
    /\ InitFixedVars /\ InitMarkerVars /\ InitDecodeVars
    /\ InitRunVars
    /\ InitVerifyVars

NextReset ==
    \/ \E frag \in ChecksumDatagrams : ChecksumReceive(frag)
    \/ \E frag \in MarkerDatagrams : StartEndReceive(frag)

SpecReset == InitReset /\ [][NextReset]_vars

InitVerify ==
    prog = "verify" /\ InitFixedVars /\ InitMarkerVars /\ InitDecodeVars
    /\ InitRunVars
    /\ InitVerifyVars

NextVerify ==
    \/ \E packet \in VerifyInputs : VerifyCrc32(packet)
    \/ \E packet \in VerifyInputs : VerifyXor8(packet)
    \/ \E packet \in Sum8Inputs : VerifySum8(packet)
    \/ \E packet \in VerifyInputs : VerifyUdp(packet)
    \/ \E packet \in Crc16Inputs : VerifyCrc16(packet)
    \/ \E payload \in RoundTripPayloads : RoundTripCrc32(payload)
    \/ \E payload \in RoundTripPayloads : RoundTripXor8(payload)
    \/ \E payload \in RoundTripPayloads : RoundTripSum8(payload)
    \/ \E bytes \in CalculateInputs : CalculateCrc32(bytes)
    \/ \E bytes \in CalculateInputs : CalculateUdp(bytes)
    \/ \E bytes \in SelfCheckPayloads : SelfCheckUdp(bytes)

SpecVerify == InitVerify /\ [][NextVerify]_vars

InitCorrupt ==
    prog = "corrupt" /\ InitFixedVars /\ InitMarkerVars /\ InitDecodeVars
    /\ InitRunVars
    /\ InitVerifyVars

\* the accepted buffers a run can still receive: it makes one verifier call
Arriving(accepted) == IF algorithm = "none" THEN accepted ELSE {}

NextCorrupt ==
    \/ \E buffer \in Arriving(Crc16Accepted) :
           \E pos \in CheckedRange("crc16", buffer) :
               \E value \in FlippedValues(buffer[pos]) :
                   CorruptCrc16(buffer, pos, value)
    \/ \E buffer \in Arriving(Crc32Accepted) :
           \E pos \in CheckedRange("crc32", buffer) :
               \E value \in FlippedValues(buffer[pos]) :
                   CorruptCrc32(buffer, pos, value)
    \/ \E buffer \in Arriving(Xor8Accepted), value \in ByteValues :
           \E pos \in CheckedRange("xor8", buffer) :
               CorruptXor8(buffer, pos, value)
    \/ \E buffer \in Arriving(Sum8Accepted), value \in ByteValues :
           \E pos \in CheckedRange("sum8", buffer) :
               CorruptSum8(buffer, pos, value)

SpecCorrupt == InitCorrupt /\ [][NextCorrupt]_vars

InitCalls ==
    prog = "calls" /\ InitFixedVars /\ InitMarkerVars /\ InitDecodeVars
    /\ InitRunVars
    /\ InitStatics

NextCalls ==
    \/ InitializeCrc32Table
    \/ \E alg \in Algorithms, buffer \in CallInputs : FirstCall(alg, buffer)
    \/ RepeatCall

SpecCalls == InitCalls /\ [][NextCalls]_vars

InitDecode ==
    prog = "decode" /\ InitFixedVars /\ InitMarkerVars /\ InitDecodeVars
    /\ InitRunVars
    /\ InitVerifyVars

NextDecode ==
    \/ \E data \in DecoderBuffers(UDP_HEADER_SIZE), stray \in StrayReads :
           DecodeFile(data, stray)
    \/ \E data \in DecoderBuffers(CUSTOM_PREAMBLE_SIZE) : DecodeStack(data)
    \/ \E data \in DecoderBuffers(CUSTOM_PREAMBLE_SIZE) : DecodeFumadon(data)
    \/ \E frags \in ChecksumStacks, stray \in StrayReads :
           DecodeChecksumStack(frags, stray)

SpecDecode == InitDecode /\ [][NextDecode]_vars

\* cnet.cpp or parse_checksum.cpp fed by a sensor that sends scans of three
\* fragments, in order, over a channel that loses datagrams
MaxScans == 3
\* the fragments' payloads: scan number and index in the scan
ScanFragments == {<<scan, index>> : scan \in 1..MaxScans, index \in 1..3}
\* the datagram carrying a payload: cnet.cpp receives it as it is,
\* parse_checksum.cpp with its CRC-32 behind it
ScanDatagram(payload) ==
    IF prog = "cnet" THEN payload
    ELSE payload \o Le32Bytes(calculate_crc32(initialize_crc32_table, payload))
\* the sensor has sent payload after everything received so far
SentLater(payload) ==
    LET received == frameFrags \o appended
    IN  \A i \in 1..Len(received) :
            \/ received[i][1] < payload[1]
            \/ received[i][1] = payload[1] /\ received[i][2] < payload[2]

InitLoss ==
    /\ prog \in {"cnet", "parse_checksum"}
    /\ InitFixedVars /\ InitMarkerVars /\ InitDecodeVars
    /\ InitRunVars
    /\ InitVerifyVars

NextLoss ==
    \/ \E payload \in ScanFragments :
           SentLater(payload) /\ CnetReceive(ScanDatagram(payload))
    \/ \E payload \in ScanFragments :
           SentLater(payload) /\ ParseChecksumReceive(ScanDatagram(payload))

SpecLoss == InitLoss /\ [][NextLoss]_vars

\* start_end.cpp or sick_packet_counter.cpp from start to the time limit
InitRun ==
    /\ prog \in {"start_end", "sick_packet_counter"}
    /\ InitFixedVars /\ InitMarkerVars /\ InitDecodeVars
    /\ InitRunVars
    /\ InitVerifyVars

NextRun ==
    \/ \E sender \in Senders, frag \in StreamDatagrams :
           StartEndReceiveFrom(sender, frag)
    \/ \E frag \in CounterDatagrams : CounterReceive(frag)
    \/ DurationLimit

SpecRun == InitRun /\ [][NextRun]_vars

\* ================================================================ claims
\* the in-progress frame buffer and fragment count of the running program
FrameBuffer ==
    IF prog \in {"cnet", "checksum"} THEN measurementData ELSE current_packet_stack

FragmentCount ==
    IF prog \in {"cnet", "checksum"} THEN fragmentCounter ELSE packets_in_stack

RECURSIVE SumLen(_)
SumLen(ss) == IF ss = <<>> THEN 0 ELSE Len(Head(ss)) + SumLen(Tail(ss))

TenOf(b) == [i \in 1..10 |-> b]

\* C1: fixed-count reassembly with N = 3 (cnet.cpp, parse.cpp): a step
\* completes a frame exactly when it appends the third fragment since the
\* last reset, never earlier; the completed buffer is the concatenation in
\* arrival order of those three fragments (three 10-byte fragments give 30
\* bytes); count and buffer are reset before the next fragment is accepted.
C1_FixedCountCompletion ==
    prog \in {"cnet", "parse"} =>
        /\ FragmentCount \in 0..2
        /\ FragmentCount = Len(appended)
        /\ event = "completed" =>
               /\ Len(frameFrags) = 3
               /\ output = frameFrags[1] \o frameFrags[2] \o frameFrags[3]
               /\ ((\A k \in 1..3 : Len(frameFrags[k]) = 10) => Len(output) = 30)
               /\ FragmentCount = 0
               /\ FrameBuffer = <<>>
        /\ event = "capturing" =>
               /\ Len(appended) \in 1..2
               /\ output = <<>>

C1_Witness ==
    /\ prog = "cnet"
    /\ event = "completed"
    /\ frameFrags = <<TenOf(161), TenOf(178), TenOf(161)>>
    /\ Len(output) = 30

\* C2: in every reachable state of cnet.cpp, parse.cpp and checksum.cpp the
\* length of the in-progress buffer equals the sum of the lengths of the
\* fragments appended since the last clear().
C2_BufferLengthIsSumOfFragments ==
    prog \in {"cnet", "parse", "checksum"} => Len(FrameBuffer) = SumLen(appended)

C2_Witness ==
    /\ prog = "checksum"
    /\ Len(appended) = 2
    /\ Len(measurementData) = 18

\* C index of the first FF 07 inside a datagram, -1 if there is none
MarkerAt(bytes, i) ==
    /\ i >= 0
    /\ i + 2 <= Len(bytes)
    /\ bytes[i + 1] = 255
    /\ bytes[i + 2] = 7

FirstMarker(bytes) ==
    IF \E i \in 0..(Len(bytes) - 2) : MarkerAt(bytes, i)
    THEN CHOOSE i \in 0..(Len(bytes) - 2) :
             MarkerAt(bytes, i) /\ \A j \in 0..(i - 1) : ~MarkerAt(bytes, j)
    ELSE -1

IsPrefix(p, q) == Len(p) <= Len(q) /\ p = SubSeq(q, 1, Len(p))

\* the buffer the detector begins at the first start of the last datagram:
\* the first one it reported, or the one still in progress
FirstBufferBegun == IF captured # <<>> THEN captured[1] ELSE measureBuffer

\* C3: when the detector is idle before a datagram that contains FF 07, the
\* first occurrence (at C index k) switches it to capturing: the k bytes
\* before it are skipped, and the buffer begun there holds the bytes from the
\* marker onward (all of them while no end marker completes it); without a
\* marker an idle detector stays idle with an empty buffer.
C3_StartMarkerBeginsBuffer ==
    (prog = "start_end" /\ ~prevCapturing /\ datagram # <<>>) =>
        LET k == FirstMarker(datagram)
        IN  IF k >= 0
            THEN /\ \A j \in 1..k : trace[j].ev = "skip" /\ trace[j].buf = <<>>
                 /\ trace[k + 1].ev = "start"
                 /\ trace[k + 1].at = k
                 /\ trace[k + 1].buf = <<255, 7>>
                 /\ IsPrefix(FirstBufferBegun, DropBytes(datagram, k))
                 /\ (captured = <<>> =>
                        capturing /\ measureBuffer = DropBytes(datagram, k))
            ELSE ~capturing /\ measureBuffer = <<>> /\ captured = <<>>

C3_Witness ==
    /\ prog = "start_end"
    /\ ~prevCapturing
    /\ datagram = <<170, 16, 255, 7>>
    /\ capturing
    /\ measureBuffer = <<255, 7>>

\* C4: a start marker FF 07 met inside a datagram while the detector is
\* capturing discards the partial buffer and starts a fresh capture: right
\* after its two bytes the buffer is exactly FF 07.
C4_StartWhileCapturingRestarts ==
    prog = "start_end" =>
        \A k \in 1..(Len(trace) - 1) :
            (trace[k].ev = "append" /\ MarkerAt(datagram, trace[k].at))
                => trace[k + 1].buf = <<255, 7>>

\* the last two bytes of b are the end marker 00 29
EndMarkerAtTail(b) == Len(b) >= 2 /\ SubSeq(b, Len(b) - 1, Len(b)) = <<0, 41>>

\* measureBuffer before the k-th recorded step of the last datagram
BufferBefore(k) == IF k = 1 THEN prevBuffer ELSE trace[k - 1].buf

\* C5: while capturing, each byte is appended and the buffer's last two
\* bytes are then compared with 00 29: the step is a completion exactly when
\* they are equal, at the first such byte, also when the end marker lies
\* inside a datagram or its two bytes come in two datagrams; between
\* datagrams a capturing buffer never ends with 00 29.
C5_EndMarkerCompletes ==
    prog = "start_end" =>
        /\ capturing => ~EndMarkerAtTail(measureBuffer)
        /\ \A k \in 1..Len(trace) :
               trace[k].ev \in {"append", "done"} =>
                   LET pushed == Append(BufferBefore(k), datagram[trace[k].at + 1])
                   IN  /\ trace[k].ev = "done" <=> EndMarkerAtTail(pushed)
                       /\ trace[k].ev = "append" => trace[k].buf = pushed
        /\ \A n \in 1..Len(captured) :
               /\ EndMarkerAtTail(captured[n])
               /\ \A m \in 2..(Len(captured[n]) - 1) :
                      ~EndMarkerAtTail(SubSeq(captured[n], 1, m))

\* the end marker's 00 closed the previous datagram, its 29 opens this one
C5_Witness ==
    /\ prog = "start_end"
    /\ prevCapturing
    /\ prevBuffer # <<>>
    /\ prevBuffer[Len(prevBuffer)] = 0
    /\ datagram # <<>>
    /\ datagram[1] = 41
    /\ trace[1].ev = "done"
    /\ Len(captured) = 1

BoundaryScenario == <<170, 255, 7, 16, 32, 0, 41>>

TraceEvents == [k \in 1..Len(trace) |-> trace[k].ev]

\* C6: the datagram AA FF 07 10 20 00 29 fed to an idle detector makes it
\* start capturing at FF 07 and complete at 00 29; the one buffer reported
\* is FF 07 10 20 00 29 and the detector is idle and empty afterwards.
C6_BoundaryScenario ==
    (prog = "start_end" /\ ~prevCapturing /\ datagram = BoundaryScenario) =>
        /\ captured = << <<255, 7, 16, 32, 0, 41>> >>
        /\ TraceEvents = <<"skip", "start", "append", "append", "append", "done">>
        /\ ~capturing
        /\ measureBuffer = <<>>

C6_Witness ==
    /\ prog = "start_end"
    /\ ~prevCapturing
    /\ datagram = BoundaryScenario
    /\ captured = << <<255, 7, 16, 32, 0, 41>> >>
    /\ ~capturing

\* C7: a completion finalizes and resets in the same step.  checksum.cpp:
\* after the third fragment (saved or discarded) the buffer is empty and the
\* count is 0, the count never stays at 3, and the buffer only ever holds
\* the fragments appended since that reset.  start_end.cpp: right after the
\* completing byte the buffer is empty and capturing is false, bytes are
\* appended again only behind a new start marker, and between datagrams a
\* capturing buffer is never a complete frame.
C7_CompletionResets ==
    /\ prog = "checksum" =>
           /\ fragmentCounter \in 0..2
           /\ event \in {"completed", "rejected"} =>
                  measurementData = <<>> /\ fragmentCounter = 0
           /\ measurementData = Flatten(appended)
    /\ prog = "start_end" =>
           /\ \A k \in 1..Len(trace) :
                  /\ trace[k].ev = "done" => trace[k].buf = <<>> /\ ~trace[k].cap
                  /\ (k > 1 /\ trace[k - 1].ev = "done") =>
                         trace[k].ev \in {"skip", "start"}
           /\ capturing => ~EndMarkerAtTail(measureBuffer)
           /\ ~capturing => measureBuffer = <<>>

\* a frame completes in the middle of a datagram and a new one starts
C7_Witness ==
    /\ prog = "start_end"
    /\ datagram = <<255, 7, 0, 41, 255, 7>>
    /\ Len(captured) = 1
    /\ capturing
    /\ measureBuffer = <<255, 7>>

C9_SizeGuard ==
    prog = "verify" =>
        /\ (algorithm = "crc32" /\ Len(packet_data) <= 4) => verdict = FALSE
        /\ (algorithm = "xor8" /\ Len(packet_data) <= 1) => verdict = FALSE
        /\ (algorithm = "sum8" /\ Len(packet_data) <= 1) => verdict = FALSE

\* C10: verify_udp_integrity returns true only if the 16-bit one's
\* complement checksum computed over the buffer is zero (no expected value
\* is stored beside it), and false on every mismatch.
C10_UdpMismatchRejected ==
    (prog = "verify" /\ algorithm = "udp16") =>
        (verdict = TRUE <=> calculate_udp_checksum(packet_data) = 0)

\* the 16-bit value stored in the last two bytes of a buffer
TrailerCrc16(buffer) ==
    buffer[Len(buffer) - 1] + 256 * buffer[Len(buffer)]

\* C11: for every buffer of at least 20 bytes check_checksum returns true if
\* and only if the CRC-16 of all bytes but the last two equals the 16-bit
\* value stored in the last two bytes of the buffer.
C11_Crc16AgainstTrailer ==
    (prog = "verify" /\ algorithm = "crc16" /\ Len(packet_data) >= HEADER_SIZE) =>
        (verdict = TRUE <=>
            crc16_ccitt(SubSeq(packet_data, 1, Len(packet_data) - 2))
                = TrailerCrc16(packet_data))

\* the plain sum of the bytes b[from+1 .. to] of a buffer
RECURSIVE ByteSum(_, _, _)
ByteSum(b, from, to) ==
    IF from >= to THEN 0 ELSE b[to] + ByteSum(b, from, to - 1)

C13_OnesComplementScenario ==
    (prog = "verify" /\ algorithm = "sum8") =>
        /\ packet_data = <<1, 2, 3, 249>> => verdict = TRUE
        /\ packet_data = <<1, 2, 3, 248>> => verdict = FALSE

C16_VerifyIsPure ==
    (prog = "calls" /\ calls = 2) => verdict = earlier

\* the reflected CRC-32 computed one bit at a time; a 32-bit register is the
\* set of the positions of its 1 bits
SymDiff(A, B) == (A \ B) \cup (B \ A)
BitsOfByte(b) == {i \in 0..7 : (b \div (2 ^ i)) % 2 = 1}
\* 0xEDB88320
ReflectedPolynomialBits == {5, 8, 9, 15, 19, 20, 21, 23, 24, 26, 27, 29, 30, 31}
BitwiseRound(reg) ==
    LET shifted == {i - 1 : i \in reg \ {0}}
    IN  IF 0 \in reg THEN SymDiff(shifted, ReflectedPolynomialBits) ELSE shifted

RECURSIVE BitwiseLoop(_)
BitwiseLoop(st) ==
    IF st.rest = <<>> THEN st.reg
    ELSE LET r0 == SymDiff(st.reg, BitsOfByte(Head(st.rest)))
             r8 == BitwiseRound(BitwiseRound(BitwiseRound(BitwiseRound(
                   BitwiseRound(BitwiseRound(BitwiseRound(BitwiseRound(r0))))))))
         IN  BitwiseLoop([reg |-> r8, rest |-> Tail(st.rest)])

Crc32Bitwise(bytes) ==
    SymDiff(BitwiseLoop([reg |-> 0..31, rest |-> bytes]), 0..31)

RECURSIVE ValueOfBits(_, _)
ValueOfBits(reg, i) ==
    IF i < 0 THEN 0
    ELSE (IF i \in reg THEN 2 ^ i ELSE 0) + ValueOfBits(reg, i - 1)

U32OfBits(reg) ==
    U32(ValueOfBits(reg, 15), ValueOfBits({i - 16 : i \in reg \ (0..15)}, 15))

\* C17: with the table initialize_crc32_table builds, calculate_crc32
\* returns the reflected CRC-32 (polynomial 0xEDB88320, initial value and
\* final XOR 0xFFFFFFFF) computed bit by bit, for every input, and the
\* result fits in 32 bits.
C17_TableDrivenEqualsBitwise ==
    (prog = "verify" /\ algorithm = "calculate_crc32") =>
        /\ computed = U32OfBits(Crc32Bitwise(packet_data))
        /\ computed.lo \in 0..65535
        /\ computed.hi \in 0..65535

\* the CRC-32 of "123456789" is 0xCBF43926
C17_Witness ==
    /\ prog = "verify" /\ algorithm = "calculate_crc32"
    /\ packet_data = CheckString
    /\ computed = U32(14630, 52212)

\* the 16-bit words of a buffer, a last odd byte followed by a zero byte
RECURSIVE WordsOf(_)
WordsOf(b) ==
    IF b = <<>> THEN <<>>
    ELSE IF Len(b) = 1 THEN <<b[1] + 256 * 0>>
    ELSE <<b[1] + 256 * b[2]>> \o WordsOf(SubSeq(b, 3, Len(b)))

\* one's-complement addition of two 16-bit words: the carry out of bit 15
\* is added back in
EndAroundAdd(x, y) == IF x + y > 65535 THEN x + y - 65535 ELSE x + y

RECURSIVE OnesComplementSum(_)
OnesComplementSum(ws) ==
    IF ws = <<>> THEN 0
    ELSE EndAroundAdd(OnesComplementSum(SubSeq(ws, 1, Len(ws) - 1)), ws[Len(ws)])

\* C18: calculate_udp_checksum returns the 16-bit complement of the
\* end-around-carry sum of the buffer's 16-bit words, a last odd byte taken
\* as a word padded with a zero byte; the folded sum is at most 0xFFFF
\* before it is complemented.
C18_UdpChecksumValue ==
    (prog = "verify" /\ algorithm = "calculate_udp_checksum") =>
        /\ computed = U32(65535 - OnesComplementSum(WordsOf(packet_data)), 0)
        /\ UdpFold(UdpWordSum(packet_data)) \in 0..65535

\* FF FF 01: the words FFFF and 0001 add up to 0x10000, folded to 1
C18_Witness ==
    /\ prog = "verify" /\ algorithm = "calculate_udp_checksum"
    /\ packet_data = <<255, 255, 1>>
    /\ computed = U32(65534, 0)

\* the bytes in front of the measurement data: preamble and header
HeaderSize == IF decoder = "file" THEN 84 ELSE 80

\* C19: on a buffer shorter than preamble plus header (80 bytes for the
\* stacked decoder, 84 for the file decoder) decoding fails with "header too
\* small", no header field is read and no point is decoded; when it does not
\* fail that way, every header byte read lies inside the buffer.
C19_HeaderTooSmall ==
    (prog = "decode" /\ decoder # "none") =>
        IF Len(packet_data) < HeaderSize
        THEN /\ decoded.outcome = "HeaderTooSmall"
             /\ decoded.header_reads = {}
             /\ decoded.block_reads = {} /\ decoded.point_reads = {}
             /\ decoded.points = <<>>
        ELSE /\ decoded.outcome # "HeaderTooSmall"
             /\ decoded.header_reads # {}
             /\ decoded.header_reads \subseteq 0..(Len(packet_data) - 1)

\* the file decoder refuses a buffer of 83 bytes, which the stacked decoder
\* would take
C19_Witness ==
    /\ prog = "decode" /\ decoder = "file"
    /\ Len(packet_data) = 83
    /\ decoded.outcome = "HeaderTooSmall"

\* C20: with a non-zero offset_measurement_data the file decoder goes on to
\* the measurement block if and only if block start + 4 <= len(buffer), and
\* reports "offset out of bounds" otherwise; a block whose 4-byte length
\* field ends exactly at the end of the buffer is accepted.
C20_OffsetCheck ==
    (/\ prog = "decode" /\ decoder = "file"
     /\ decoded.outcome \in {"decoded", "fault", "OffsetOutOfBounds"}) =>
        (decoded.outcome = "OffsetOutOfBounds"
            <=> ~(decoded.block_start + 4 <= Len(packet_data)))

\* C21: a header written with chosen 32-bit values, little-endian, scan_num
\* at header offset 20 and offset_measurement_data at header offset 40,
\* decodes to exactly the chosen values (the stacked decoder decodes
\* scan_num only).
C21_HeaderRoundTrip ==
    (prog = "decode" /\ decoder # "none") =>
        LET preamble == IF decoder = "file" THEN 24 ELSE 20
            written(at) == SubSeq(packet_data, preamble + at + 1,
                                  preamble + at + 4)
        IN  Len(packet_data) >= preamble + 60 =>
                \A chosen \in HeaderWords :
                    /\ written(20) = Le32Bytes(chosen)
                           => decoded.scan_id = chosen
                    /\ (decoder = "file" /\ written(40) = Le32Bytes(chosen))
                           => decoded.measurement_data_offset = chosen

\* both fields decoded from a file, all four bytes of each different
C21_Witness ==
    /\ prog = "decode" /\ decoder = "file"
    /\ decoded.scan_id = U32(513, 1027)
    /\ decoded.measurement_data_offset = U32(60, 1)

\* where the first point record of the decoded buffer lies (0-based)
FirstRecord == IF decoder = "file" THEN decoded.block_start + 4
               ELSE decoded.block_start
\* the i-th point record's bytes, when the buffer holds all four
RecordBytes(i) ==
    SubSeq(packet_data, FirstRecord + 4 * (i - 1) + 1, FirstRecord + 4 * i)
RecordInBuffer(i) == FirstRecord + 4 * i <= Len(packet_data)

\* C22: for every decoded 4-byte point record, with v the little-endian
\* 16-bit value of bytes 0-1: distance_mm = v & 0x1FFF, status = (v >> 13)
\* & 7, intensity = the little-endian 16-bit value of bytes 2-3; so
\* distance_mm is in 0..8191, status in 0..7, distance_mm + 8192 * status = v.
C22_PointDecoding ==
    (prog = "decode" /\ decoder # "none") =>
        \A i \in 1..Len(decoded.points) :
            RecordInBuffer(i) =>
                LET b == RecordBytes(i)
                    v == b[1] + 256 * b[2]
                    point == decoded.points[i]
                IN  /\ point.distance_mm = v % 8192
                    /\ point.status_flags = (v \div 8192) % 8
                    /\ point.rssi = b[3] + 256 * b[4]
                    /\ point.distance_mm \in 0..8191
                    /\ point.status_flags \in 0..7
                    /\ point.distance_mm + 8192 * point.status_flags = v

\* a record with all three status bits set has been decoded
C22_Witness ==
    /\ prog = "decode" /\ decoder = "stack"
    /\ \E i \in 1..Len(decoded.points) :
           /\ RecordInBuffer(i)
           /\ RecordBytes(i) = <<52, 224, 100, 2>>
           /\ decoded.points[i] =
                  [distance_mm |-> 52, status_flags |-> 7, rssi |-> 612]

\* the points decoded from the record 34 12 64 00
ScenarioPoints ==
    IF prog = "decode" /\ decoder # "none"
    THEN {decoded.points[i] : i \in {j \in 1..Len(decoded.points) :
             RecordInBuffer(j) /\ RecordBytes(j) = <<52, 18, 100, 0>>}}
    ELSE {}

\* C23 as stated: decoding the point record 34 12 64 00 gives distance_mm =
\* 564, status = 1 and intensity = 100.
C23_Scenario ==
    \A point \in ScenarioPoints :
        point = [distance_mm |-> 564, status_flags |-> 1, rssi |-> 100]

\* C23, amended: decoding the point record 34 12 64 00 gives distance_mm =
\* 4660 (0x1234 & 0x1FFF keeps bit 12), status = 0 (0x1234 >> 13 is 0) and
\* intensity = 100.
C23_ScenarioStatusZero ==
    \A point \in ScenarioPoints :
        point = [distance_mm |-> 4660, status_flags |-> 0, rssi |-> 100]

\* the stacked decoder has decoded the scenario's record
C23_Witness == decoder = "stack" /\ ScenarioPoints # {}

\* C24: when the point data's length is not a multiple of 4 the stacked
\* decoder does not fail: it warns and decodes exactly floor(length / 4)
\* points, the length mod 4 trailing bytes ignored.
C24_TrailingBytesIgnored ==
    LET length == Len(packet_data) - DATA_BLOCK_START_INDEX
    IN  (/\ prog = "decode" /\ decoder \in {"stack", "fumadon"}
         /\ length >= 0 /\ length % BYTES_PER_POINT # 0)
        => /\ decoded.outcome = "decoded"
           /\ decoded.warning
           /\ Len(decoded.points) = length \div BYTES_PER_POINT
           /\ decoded.point_reads \subseteq
                  DATA_BLOCK_START_INDEX..
                      (Len(packet_data) - 1 - (length % BYTES_PER_POINT))

\* C24 for parse.cpp alone, whose loop has no limit
C24_ParseAlone == decoder = "stack" => C24_TrailingBytesIgnored

\* the frame completed by the last step was malformed: check_checksum
\* failed (checksum.cpp), or the stack is too small for a header (parse.cpp)
MalformedFrame ==
    \/ prog = "checksum" /\ event = "rejected"
    \/ /\ prog = "parse" /\ event = "completed"
       /\ Len(output) < DATA_BLOCK_START_INDEX

\* C25: a malformed completed frame (checksum failure, header too small)
\* discards the whole assembled buffer and resets the fragment count to 0;
\* it is not fatal: the next fragment is accepted as the first of a new
\* frame, and checksum.cpp saves nothing for the malformed frame.
C25_FrameMalformationNotFatal ==
    [][/\ MalformedFrame' =>
            /\ FrameBuffer' = <<>> /\ FragmentCount' = 0
            /\ measurementIndex' = measurementIndex
       /\ MalformedFrame =>
            /\ event' \in {"capturing", "dropped"}
            /\ event' = "capturing" =>
                   /\ FragmentCount' = 1
                   /\ Len(appended') = 1 /\ FrameBuffer' = appended'[1]
            /\ event' = "dropped" =>
                   FrameBuffer' = <<>> /\ FragmentCount' = 0]_vars

\* a frame that failed check_checksum has been discarded after an earlier
\* frame was saved
C25_Witness ==
    /\ prog = "checksum" /\ event = "rejected" /\ measurementIndex = 1
    /\ measurementData = <<>> /\ fragmentCounter = 0

\* C26: a malformed fragment (too short to carry payload: checksum.cpp;
\* failing its checksum: parse_checksum.cpp, parse_checksum3.cpp) is dropped
\* and leaves the assembler unchanged: frame buffer and in-frame fragment
\* count are the same after the step as before it; only the dropped
\* counter may change.
C26_MalformedFragmentDropped ==
    [][event' = "dropped" =>
           /\ FrameBuffer' = FrameBuffer
           /\ FragmentCount' = FragmentCount
           /\ appended' = appended
           /\ measurementIndex' = measurementIndex
           /\ droppedCounter' \in {droppedCounter, droppedCounter + 1}]_vars

\* a fragment failing its CRC-32 has been dropped in the middle of a frame
C26_Witness ==
    /\ prog = "parse_checksum" /\ event = "dropped"
    /\ packets_in_stack = 2 /\ droppedCounter = 1

\* the datagrams of one sender, in arrival order
StreamOf(sender) ==
    LET from == SelectSeq(arrivals, LAMBDA a : a.sender = sender)
    IN  [i \in 1..Len(from) |-> from[i].bytes]

\* the measurements the byte loop captures from a sequence of datagrams,
\* started with the given buffer and flag
RECURSIVE FramesAlone(_, _, _, _)
FramesAlone(datagrams, buf, cap, frames) ==
    IF datagrams = <<>> THEN frames
    ELSE LET st == ScanBytes(Head(datagrams), 0, ScanStart(buf, cap, 0))
         IN  FramesAlone(Tail(datagrams), st.buf, st.cap, frames \o st.captured)

\* C27: each stream has its own detector state: with the datagrams of two
\* senders interleaved, the frames completed are those each sender's
\* datagrams complete when processed alone.
C27_StreamsIndependent ==
    prog = "start_end" =>
        LET alone == [s \in Senders |->
                         FramesAlone(StreamOf(s), <<>>, FALSE, <<>>)]
        IN  /\ measureCounter = Len(alone[1]) + Len(alone[2])
            /\ \A i \in 1..Len(captured) :
                   \E s \in Senders : \E j \in 1..Len(alone[s]) :
                       alone[s][j] = captured[i]

\* C28: when the run's duration limit is reached while a frame is partially
\* captured, the partial frame is discarded and the detector is back in
\* IDLE with an empty buffer (start_end.cpp: not capturing;
\* sick_packet_counter.cpp: packetsInCurrentMeasure = -1).
C28_PartialFrameDiscardedAtClose ==
    ~listening =>
        /\ prog = "start_end" => ~capturing /\ measureBuffer = <<>>
        /\ prog = "sick_packet_counter" => packetsInCurrentMeasure = -1

\* every reachable state of a run
RunTypeOK ==
    /\ listening \in BOOLEAN
    /\ Len(arrivals) <= (IF prog = "start_end" THEN MaxArrivals ELSE MaxPackets)
    /\ packetsInCurrentMeasure \in {-1} \cup 1..(PACKETS_PER_MEASURE - 1)
    /\ packetCounter \in 0..MaxPackets

\* C29: fixed-count reassembly under fragment loss: when the sensor sends
\* scans of 3 fragments and some are lost, every completed buffer still
\* consists of fragments of one scan; fragments of two scans are never
\* combined into one completed frame.
C29_NoMixedScans ==
    event = "completed" =>
        \A i, j \in 1..Len(frameFrags) : frameFrags[i][1] = frameFrags[j][1]

\* the offsets in the stacked buffer of the checksum trailers of the
\* fragments stacked, from the fragments' recorded lengths
TrailerOffsets ==
    UNION {LET end == SumLen(SubSeq(frameFrags, 1, k))
           IN  (end - CHECKSUM_SIZE_CRC32)..(end - 1) :
              k \in 1..Len(frameFrags)}

\* C30: in per-fragment-checksum mode the point decoder never decodes a
\* trailer byte of any fragment as part of a point; the positions it skips
\* are exactly the ends of the individual fragments, for fragments of any
\* lengths.
C30_TrailersNeverDecoded ==
    (prog = "decode" /\ decoder = "checksum_stack") =>
        /\ decoded.point_reads \cap TrailerOffsets = {}
        /\ decoded.skipped \subseteq TrailerOffsets
        /\ \A t \in TrailerOffsets : t < decoded.at => t \in decoded.skipped

\* the bytes of every datagram received so far, in arrival order
ReceivedDatagrams == [i \in 1..Len(arrivals) |-> arrivals[i].bytes]

\* C31: marker-based framing depends only on the byte stream, not on how
\* it is cut into fragments: the buffers completed from the datagrams as
\* received are those completed from the same bytes in one piece (also
\* when the cut lies between the FF and the 07 of a start marker).
C31_FramingIgnoresFragmentation ==
    prog = "start_end" =>
        LET unsplit == FramesAlone(<<Flatten(ReceivedDatagrams)>>,
                                   <<>>, FALSE, <<>>)
        IN  /\ FramesAlone(ReceivedDatagrams, <<>>, FALSE, <<>>) = unsplit
            /\ measureCounter = Len(unsplit)

\* C32: every buffer reported as a captured measurement has length >= 4,
\* begins with FF 07, ends with 00 29 and holds the pair 00 29 at no
\* position other than its last two bytes.
C32_CapturedBufferShape ==
    prog = "start_end" =>
        \A n \in 1..Len(captured) :
            LET b == captured[n]
            IN  /\ Len(b) >= 4
                /\ SubSeq(b, 1, 2) = <<255, 7>>
                /\ SubSeq(b, Len(b) - 1, Len(b)) = <<0, 41>>
                /\ \A m \in 1..(Len(b) - 2) : ~(b[m] = 0 /\ b[m + 1] = 41)

\* the shortest measurement has been reported
C32_Witness ==
    /\ prog = "start_end"
    /\ \E n \in 1..Len(captured) : captured[n] = <<255, 7, 0, 41>>
    /\ datagram = <<255, 7, 0, 41, 255, 7>>

\* capturing and measureBuffer agree: idle with an empty buffer, or
\* capturing with a buffer that begins with FF 07
DetectorConsistent(cap, buf) ==
    /\ ~cap <=> buf = <<>>
    /\ cap => Len(buf) >= 2 /\ SubSeq(buf, 1, 2) = <<255, 7>>

\* C33: in every state between two processed bytes, capturing is false
\* if and only if the measurement buffer is empty, and when capturing is
\* true the buffer has length >= 2 and begins with FF 07.
C33_CapturingIffBufferBegun ==
    prog = "start_end" =>
        /\ DetectorConsistent(prevCapturing, prevBuffer)
        /\ \A k \in 1..Len(trace) : DetectorConsistent(trace[k].cap, trace[k].buf)
        /\ DetectorConsistent(capturing, measureBuffer)

\* the detector is capturing between two datagrams, bytes appended to it
C33_Witness ==
    /\ prog = "start_end"
    /\ prevCapturing /\ capturing
    /\ Len(measureBuffer) > Len(prevBuffer)
    /\ \A k \in 1..Len(trace) : trace[k].ev = "append"

\* C34: the file decoder never reads a byte outside the buffer while
\* decoding points: for every buffer of at least 84 bytes, every value of
\* the header's measurement-data offset and of the block's length field,
\* each point record read lies within [0, len(buffer)).
C34_PointReadsInsideBuffer ==
    (prog = "decode" /\ decoder = "file" /\ Len(packet_data) >= MIN_SIZE) =>
        /\ decoded.point_reads \subseteq 0..(Len(packet_data) - 1)
        /\ decoded.outcome # "fault"

\* C35: in the stack decoder of parse_checksum.cpp the measurement byte
\* count (stack size - 80 - packets * checksum size) never wraps below
\* zero: for every stack of 3 verified packets of total size >= 80 at most
\* (stack size - 80) / 4 points are decoded and every point read lies
\* inside the stacked buffer.
C35_MeasurementCountNeverWraps ==
    (prog = "decode" /\ decoder = "checksum_stack" /\ Len(frameFrags) = 3
        /\ Len(packet_data) >= DATA_BLOCK_START_INDEX) =>
        /\ Len(packet_data) - DATA_BLOCK_START_INDEX
               >= Len(frameFrags) * CHECKSUM_SIZE_CRC32
        /\ Len(decoded.points)
               <= (Len(packet_data) - DATA_BLOCK_START_INDEX) \div BYTES_PER_POINT
        /\ decoded.point_reads \subseteq 0..(Len(packet_data) - 1)
        /\ decoded.outcome # "fault"

\* the bytes of a datagram hold FF 07 at adjacent positions
HasStartMarker(d) == \E i \in 1..(Len(d) - 1) : d[i] = 255 /\ d[i + 1] = 7
\* the datagram received by the step
Received == arrivals'[Len(arrivals')].bytes

\* C36: packet counter state machine: packetsInCurrentMeasure is -1 or in
\* 1..4 after every iteration; a measure starts only while waiting and only
\* on a packet containing FF 07; it completes (back to -1) exactly with the
\* 5th packet counted from the starting one, whatever the 4 packets after
\* the start contain; a packet without the marker received while waiting
\* changes no measure state.
C36_PacketCounterStateMachine ==
    [][(prog = "sick_packet_counter" /\ packetCounter' = packetCounter + 1) =>
          /\ packetsInCurrentMeasure \in {-1} \cup 1..(PACKETS_PER_MEASURE - 1)
          /\ packetsInCurrentMeasure' \in {-1} \cup 1..(PACKETS_PER_MEASURE - 1)
          /\ (packetsInCurrentMeasure = -1 /\ HasStartMarker(Received)) =>
                 /\ packetsInCurrentMeasure' = 1
                 /\ measureCounter' = measureCounter + 1
          /\ (packetsInCurrentMeasure = -1 /\ ~HasStartMarker(Received)) =>
                 /\ packetsInCurrentMeasure' = -1
                 /\ measureCounter' = measureCounter
          /\ packetsInCurrentMeasure \in 1..(PACKETS_PER_MEASURE - 2) =>
                 /\ packetsInCurrentMeasure' = packetsInCurrentMeasure + 1
                 /\ measureCounter' = measureCounter
          /\ packetsInCurrentMeasure = PACKETS_PER_MEASURE - 1 =>
                 /\ packetsInCurrentMeasure' = -1
                 /\ measureCounter' = measureCounter
      ]_vars

\* a measure was started by FF 07, completed by the 4 packets after it, of
\* which one held the marker again, and a packet without the marker has
\* then been received while waiting
C36_Witness ==
    /\ prog = "sick_packet_counter"
    /\ packetCounter = PACKETS_PER_MEASURE + 1
    /\ measureCounter = 1
    /\ packetsInCurrentMeasure = -1
    /\ HasStartMarker(arrivals[1].bytes)
    /\ HasStartMarker(arrivals[3].bytes)
    /\ arrivals[PACKETS_PER_MEASURE + 1].bytes = <<255>>

\* the number of measures of which all 5 packets are among the datagrams
\* received from the i-th on, when `open` packets of a measure have been
\* received before (0: none is open) and `done` measures are complete
RECURSIVE MeasuresReceived(_, _, _)
MeasuresReceived(i, open, done) ==
    IF i > Len(arrivals) THEN done
    ELSE LET now == IF open > 0 THEN open + 1
                    ELSE IF HasStartMarker(arrivals[i].bytes) THEN 1 ELSE 0
         IN  IF now = PACKETS_PER_MEASURE
             THEN MeasuresReceived(i + 1, 0, done + 1)
             ELSE MeasuresReceived(i + 1, now, done)

\* C37: measureCounter counts completed measures: whenever the monitoring
\* loop has ended, measureCounter is the number of measures of which all 5
\* packets were received, and expectedPackets = measureCounter * 5 counts
\* only packets of completed measures.
C37_MeasureCounterCountsCompleted ==
    (prog = "sick_packet_counter" /\ ~listening) =>
        /\ measureCounter = MeasuresReceived(1, 0, 0)
        /\ expectedPackets = PACKETS_PER_MEASURE * MeasuresReceived(1, 0, 0)

\* C38: the reported number of lost packets, measureCounter * 5 -
\* packetCounter, is never negative, after any sequence of received packets.
C38_LostPacketsNotNegative ==
    (prog = "sick_packet_counter" /\ ~listening) => lostPackets >= 0

\* C39: self-check of the one's-complement checksum: for every byte
\* sequence D of even length, calculate_udp_checksum over D followed by the
\* word calculate_udp_checksum(D), stored in the byte order in which words
\* are read, returns 0.
C39_UdpSelfCheck ==
    (prog = "verify" /\ algorithm = "udp_self_check") =>
        /\ Len(packet_data) % 2 = 0
        /\ computed = U32(0, 0)

\* D = FF FF 01 00 sums to 0x10000, folded to 1: the word appended is FFFE
C39_Witness ==
    /\ prog = "verify" /\ algorithm = "udp_self_check"
    /\ packet_data = <<255, 255, 1, 0, 254, 255>>
    /\ computed = U32(0, 0)

====
